---- MODULE Spec2Model ----
(***************************************************************************)
(* Staking ledger consistency layer (substrate/frame/staking/src/ledger.rs) *)
(*                                                                         *)
(* Storage items: Ledger (controller -> StakingLedger), Bonded (stash ->    *)
(* controller), Payee (stash -> RewardDestination), VirtualStakers (set of  *)
(* stashes) and the staking lock of every account.  A caller holds one      *)
(* in-memory StakingLedger (handle), obtained from new or get, mutates it   *)
(* and commits it through bond / update / set_payee /                       *)
(* set_controller_to_stash; kill works on a stash key.                      *)
(***************************************************************************)
EXTENDS Integers, Sequences, FiniteSets, TLC

\* ---------------------------------------------------------------- bounds
MaxStake == 2
MaxChunks == 1
\* The longest String leaf, in symbols, and the widest Compact tuple.
MaxLeafLen == 1
MaxArity == 2
\* The most leaves an MMR is grown to.
MaxLeaves == 4
\* The store_number calls of one run and the blocks run_to_block advances to.
MaxStores == 2
MaxBlock == 2

\* AccountId is an opaque type: two accounts give a stash, a controller
\* other than the stash, and a second ledger the first can collide with.
Accounts == {"alice", "bob"}
Balances == 0..MaxStake
RewardDestinations == {"Staked", "Stash"}

\* Option<T>: None is the empty tuple, Some(x) the one-element tuple.
None == <<>>
Some(x) == <<x>>
IsSome(o) == o # None
Unwrap(o) == o[1]

\* Result<(), Error<T>>
Ok == "Ok"

\* StakingAccount<AccountId>
Stash(a) == [kind |-> "Stash", id |-> a]
Controller(a) == [kind |-> "Controller", id |-> a]

VARIABLES
    Ledger,          \* storage map: controller -> persisted StakingLedger
    Bonded,          \* storage map: stash -> controller
    Payee,           \* storage map: stash -> RewardDestination
    VirtualStakers,  \* storage map stash -> (), kept as its key set
    lock,            \* staking lock of every account (0: no lock)
    handle,          \* the caller's in-memory StakingLedger, if any
    last,            \* the operation that returned last
    result,          \* what it returned: Ok or the Error variant
    writer,          \* concurrent writers: each one's position and in-memory copy
    committed,       \* the writers whose update returned Ok, in commit order
    expected,        \* the stored ledger with every committed mutation applied
    item,            \* MMR leaf codec: the DataOrHash node or Compact leaf in hand
    codec,           \* MMR leaf codec: the last operation on it and what it gave
    mmr,             \* MMR: the flat node array, the full leaves and the leaf count
    returned,        \* MMR: the node index every successful append returned
    reply,           \* MMR: the last call of the API and what it returned
    held,            \* MMR: a proof a client keeps, with the root it was made under
    Numbers,         \* auto-tasks storage map: u32 key -> u32 value
    Total,           \* auto-tasks storage value: (sum of keys, sum of values)
    pool,            \* auto-tasks: the keys of the do_task transactions submitted
    block,           \* auto-tasks: System::block_number()
    build,           \* auto-tasks: how the pallet was built
    call,            \* auto-tasks: the last call and what it returned
    processed,       \* auto-tasks: the true sums of the keys and values processed
    stores,          \* auto-tasks: the number of store_number calls so far
    IdentityOf,      \* identity storage map: account -> Registration
    Registrars,      \* identity storage value: the registrars, by index
    SubsOf,          \* identity storage map: account -> (deposit, sub accounts)
    SuperOf,         \* identity storage map: sub account -> (super, name)
    reserved,        \* identity: the balance the pallet holds reserved on each account
    UsernameOf,      \* identity storage map: account -> primary username
    UsernameInfoOf,  \* identity storage map: username -> (owner, provider)
    PendingUsernames,    \* identity storage map: username -> (account, expiration, provider)
    UnbindingUsernames,  \* identity storage map: username -> grace period expiry
    AuthorityOf,     \* identity storage map: suffix -> (account, allocation)
    now,             \* identity: frame_system's block number
    dispatched       \* identity: the last call dispatched and what it returned

ledgerVars == <<Ledger, Bonded, Payee, VirtualStakers, lock, handle, last, result>>
writerVars == <<writer, committed, expected>>
leafVars == <<item, codec>>
mmrVars == <<mmr, returned, reply, held>>
tasksVars == <<Numbers, Total, pool, block, build, call, processed, stores>>
judgementVars == <<IdentityOf, Registrars, SubsOf, SuperOf>>
usernameVars == <<UsernameOf, UsernameInfoOf, PendingUsernames, UnbindingUsernames,
                  AuthorityOf>>
identityVars == <<judgementVars, usernameVars, reserved, now, dispatched>>
\* What the operations of one part leave alone.
nonLedgerVars == <<writerVars, leafVars, mmrVars, tasksVars, identityVars>>
nonWriterVars == <<handle, leafVars, mmrVars, tasksVars, identityVars>>
nonLeafVars == <<ledgerVars, writerVars, mmrVars, tasksVars, identityVars>>
nonMmrVars == <<ledgerVars, writerVars, leafVars, tasksVars, identityVars>>
nonTasksVars == <<ledgerVars, writerVars, leafVars, mmrVars, identityVars>>
nonIdentityVars == <<ledgerVars, writerVars, leafVars, mmrVars, tasksVars>>
vars == <<ledgerVars, writerVars, leafVars, mmrVars, tasksVars, identityVars>>

\* The storage the ledger API reads and writes, as one value.
Storage ==
    [Ledger |-> Ledger, Bonded |-> Bonded, Payee |-> Payee,
     VirtualStakers |-> VirtualStakers, lock |-> lock]

\* ------------------------------------------------------- storage maps
StorageGet(m, k) == IF k \in DOMAIN m THEN Some(m[k]) ELSE None
StorageInsert(m, k, v) == [x \in (DOMAIN m) \cup {k} |-> IF x = k THEN v ELSE m[x]]
StorageRemove(m, k) == [x \in (DOMAIN m) \ {k} |-> m[x]]

\* The controller field is #[codec(skip)]: it is not written to storage and
\* a ledger read from storage carries controller = None.
Encode(ledger) ==
    [stash |-> ledger.stash, total |-> ledger.total, active |-> ledger.active,
     unlocking |-> ledger.unlocking]
Decode(stored) ==
    [stash |-> stored.stash, total |-> stored.total, active |-> stored.active,
     unlocking |-> stored.unlocking, controller |-> None]
LedgerGet(st, k) ==
    IF k \in DOMAIN st.Ledger THEN Some(Decode(st.Ledger[k])) ELSE None

RECURSIVE SumValues(_)
SumValues(chunks) ==
    IF chunks = <<>> THEN 0 ELSE chunks[1].value + SumValues(Tail(chunks))

\* ------------------------------------------------------------ asset
\* asset::update_stake / asset::kill_stake and the free balance they act on.
FreeBalance(who) == MaxStake - 1
update_stake(st, who, amount) ==
    IF amount > FreeBalance(who)
    THEN [res |-> "DispatchError", st |-> st]
    ELSE [res |-> Ok, st |-> [st EXCEPT !.lock[who] = amount]]
kill_stake(st, who, releaseOk) ==
    IF releaseOk
    THEN [res |-> Ok, st |-> [st EXCEPT !.lock[who] = 0]]
    ELSE [res |-> "DispatchError", st |-> st]
is_virtual_staker(st, who) == who \in st.VirtualStakers

\* ------------------------------------------------------ StakingLedger
\* Mutant: new leaves active at zero.
new_ActiveZero(stash, stake) ==
    [stash |-> stash, active |-> 0, total |-> stake, unlocking |-> <<>>,
     controller |-> Some(stash)]

new(stash, stake) ==
    [stash |-> stash, active |-> stake, total |-> stake, unlocking |-> <<>>,
     controller |-> Some(stash)]

paired_account(st, account) ==
    IF account.kind = "Stash"
    THEN StorageGet(st.Bonded, account.id)
    ELSE IF IsSome(LedgerGet(st, account.id))
         THEN Some(Unwrap(LedgerGet(st, account.id)).stash)
         ELSE None

is_bonded(st, account) ==
    IF account.kind = "Stash"
    THEN account.id \in DOMAIN st.Bonded
    ELSE account.id \in DOMAIN st.Ledger

\* Mutant: get checks the Bonded entry only, not the ledger's stash.
get_NoStashCheck(st, account) ==
    LET first ==
            IF account.kind = "Stash"
            THEN IF IsSome(StorageGet(st.Bonded, account.id))
                 THEN [res |-> Ok, stash |-> account.id,
                       controller |-> Unwrap(StorageGet(st.Bonded, account.id))]
                 ELSE [res |-> "NotStash"]
            ELSE IF IsSome(LedgerGet(st, account.id))
                 THEN [res |-> Ok, stash |-> Unwrap(LedgerGet(st, account.id)).stash,
                       controller |-> account.id]
                 ELSE [res |-> "NotController"]
    IN  IF first.res # Ok THEN [res |-> first.res]
        ELSE IF ~IsSome(LedgerGet(st, first.controller)) THEN [res |-> "NotController"]
        ELSE LET ledger == [Unwrap(LedgerGet(st, first.controller))
                               EXCEPT !.controller = Some(first.controller)]
             IN  IF StorageGet(st.Bonded, first.stash) = Some(first.controller)
                 THEN [res |-> Ok, ledger |-> ledger]
                 ELSE [res |-> "BadState"]

\* Mutant: get returns the ledger as storage decoded it, controller unset.
get_ControllerNone(st, account) ==
    LET first ==
            IF account.kind = "Stash"
            THEN IF IsSome(StorageGet(st.Bonded, account.id))
                 THEN [res |-> Ok, stash |-> account.id,
                       controller |-> Unwrap(StorageGet(st.Bonded, account.id))]
                 ELSE [res |-> "NotStash"]
            ELSE IF IsSome(LedgerGet(st, account.id))
                 THEN [res |-> Ok, stash |-> Unwrap(LedgerGet(st, account.id)).stash,
                       controller |-> account.id]
                 ELSE [res |-> "NotController"]
    IN  IF first.res # Ok THEN [res |-> first.res]
        ELSE IF ~IsSome(LedgerGet(st, first.controller)) THEN [res |-> "NotController"]
        ELSE LET ledger == Unwrap(LedgerGet(st, first.controller))
             IN  IF StorageGet(st.Bonded, first.stash) = Some(first.controller)
                    /\ ledger.stash = first.stash
                 THEN [res |-> Ok, ledger |-> ledger]
                 ELSE [res |-> "BadState"]

\* Mutant: get does not compare Bonded[stash] with the controller key.
get_NoBondedCheck(st, account) ==
    LET first ==
            IF account.kind = "Stash"
            THEN IF IsSome(StorageGet(st.Bonded, account.id))
                 THEN [res |-> Ok, stash |-> account.id,
                       controller |-> Unwrap(StorageGet(st.Bonded, account.id))]
                 ELSE [res |-> "NotStash"]
            ELSE IF IsSome(LedgerGet(st, account.id))
                 THEN [res |-> Ok, stash |-> Unwrap(LedgerGet(st, account.id)).stash,
                       controller |-> account.id]
                 ELSE [res |-> "NotController"]
    IN  IF first.res # Ok THEN [res |-> first.res]
        ELSE IF ~IsSome(LedgerGet(st, first.controller)) THEN [res |-> "NotController"]
        ELSE LET ledger == [Unwrap(LedgerGet(st, first.controller))
                               EXCEPT !.controller = Some(first.controller)]
             IN  IF ledger.stash = first.stash
                 THEN [res |-> Ok, ledger |-> ledger]
                 ELSE [res |-> "BadState"]

\* Mutant: get reports a stash bonded to a controller without ledger as BadState.
get_MissIsBadState(st, account) ==
    LET first ==
            IF account.kind = "Stash"
            THEN IF IsSome(StorageGet(st.Bonded, account.id))
                 THEN [res |-> Ok, stash |-> account.id,
                       controller |-> Unwrap(StorageGet(st.Bonded, account.id))]
                 ELSE [res |-> "NotStash"]
            ELSE IF IsSome(LedgerGet(st, account.id))
                 THEN [res |-> Ok, stash |-> Unwrap(LedgerGet(st, account.id)).stash,
                       controller |-> account.id]
                 ELSE [res |-> "NotController"]
    IN  IF first.res # Ok THEN [res |-> first.res]
        ELSE IF ~IsSome(LedgerGet(st, first.controller)) THEN [res |-> "BadState"]
        ELSE LET ledger == [Unwrap(LedgerGet(st, first.controller))
                               EXCEPT !.controller = Some(first.controller)]
             IN  IF StorageGet(st.Bonded, first.stash) = Some(first.controller)
                    /\ ledger.stash = first.stash
                 THEN [res |-> Ok, ledger |-> ledger]
                 ELSE [res |-> "BadState"]

get(st, account) ==
    LET first ==
            IF account.kind = "Stash"
            THEN IF IsSome(StorageGet(st.Bonded, account.id))
                 THEN [res |-> Ok, stash |-> account.id,
                       controller |-> Unwrap(StorageGet(st.Bonded, account.id))]
                 ELSE [res |-> "NotStash"]
            ELSE IF IsSome(LedgerGet(st, account.id))
                 THEN [res |-> Ok, stash |-> Unwrap(LedgerGet(st, account.id)).stash,
                       controller |-> account.id]
                 ELSE [res |-> "NotController"]
    IN  IF first.res # Ok THEN [res |-> first.res]
        ELSE IF ~IsSome(LedgerGet(st, first.controller)) THEN [res |-> "NotController"]
        ELSE LET ledger == [Unwrap(LedgerGet(st, first.controller))
                               EXCEPT !.controller = Some(first.controller)]
             IN  IF StorageGet(st.Bonded, first.stash) = Some(first.controller)
                    /\ ledger.stash = first.stash
                 THEN [res |-> Ok, ledger |-> ledger]
                 ELSE [res |-> "BadState"]

controller(st, self) ==
    IF IsSome(self.controller)
    THEN self.controller
    ELSE paired_account(st, Stash(self.stash))

\* Mutant: update locks the stash of a virtual staker too.
update_LocksVirtual(st, self) ==
    IF ~(self.stash \in DOMAIN st.Bonded) THEN [res |-> "NotStash", st |-> st]
    ELSE LET locked == update_stake(st, self.stash, self.total)
         IN  IF locked.res # Ok THEN [res |-> "NotEnoughFunds", st |-> locked.st]
             ELSE IF ~IsSome(controller(locked.st, self))
                  THEN [res |-> "NotController", st |-> locked.st]
                  ELSE [res |-> Ok,
                        st |-> [locked.st EXCEPT !.Ledger =
                                  StorageInsert(@, Unwrap(controller(locked.st, self)),
                                                Encode(self))]]

\* Mutant: update sets the lock and returns Ok without writing the ledger.
update_SkipsInsert(st, self) ==
    IF ~(self.stash \in DOMAIN st.Bonded) THEN [res |-> "NotStash", st |-> st]
    ELSE LET locked ==
                 IF ~is_virtual_staker(st, self.stash)
                 THEN update_stake(st, self.stash, self.total)
                 ELSE [res |-> Ok, st |-> st]
         IN  IF locked.res # Ok THEN [res |-> "NotEnoughFunds", st |-> locked.st]
             ELSE [res |-> Ok, st |-> locked.st]

\* Mutant: update keeps a Ledger entry that is already stored.
update_FirstWriteWins(st, self) ==
    IF ~(self.stash \in DOMAIN st.Bonded) THEN [res |-> "NotStash", st |-> st]
    ELSE LET locked ==
                 IF ~is_virtual_staker(st, self.stash)
                 THEN update_stake(st, self.stash, self.total)
                 ELSE [res |-> Ok, st |-> st]
         IN  IF locked.res # Ok THEN [res |-> "NotEnoughFunds", st |-> locked.st]
             ELSE IF ~IsSome(controller(locked.st, self))
                  THEN [res |-> "NotController", st |-> locked.st]
                  ELSE IF Unwrap(controller(locked.st, self)) \in DOMAIN locked.st.Ledger
                       THEN [res |-> Ok, st |-> locked.st]
                       ELSE [res |-> Ok,
                             st |-> [locked.st EXCEPT !.Ledger =
                                       StorageInsert(@, Unwrap(controller(locked.st, self)),
                                                     Encode(self))]]

\* Mutant: update does not look for the Bonded entry of the stash.
update_NoStashCheck(st, self) ==
    LET locked ==
            IF ~is_virtual_staker(st, self.stash)
            THEN update_stake(st, self.stash, self.total)
            ELSE [res |-> Ok, st |-> st]
    IN  IF locked.res # Ok THEN [res |-> "NotEnoughFunds", st |-> locked.st]
        ELSE IF ~IsSome(controller(locked.st, self))
             THEN [res |-> "NotController", st |-> locked.st]
             ELSE [res |-> Ok,
                   st |-> [locked.st EXCEPT !.Ledger =
                             StorageInsert(@, Unwrap(controller(locked.st, self)),
                                           Encode(self))]]

update(st, self) ==
    IF ~(self.stash \in DOMAIN st.Bonded) THEN [res |-> "NotStash", st |-> st]
    ELSE LET locked ==
                 IF ~is_virtual_staker(st, self.stash)
                 THEN update_stake(st, self.stash, self.total)
                 ELSE [res |-> Ok, st |-> st]
         IN  IF locked.res # Ok THEN [res |-> "NotEnoughFunds", st |-> locked.st]
             ELSE IF ~IsSome(controller(locked.st, self))
                  THEN [res |-> "NotController", st |-> locked.st]
                  ELSE [res |-> Ok,
                        st |-> [locked.st EXCEPT !.Ledger =
                                  StorageInsert(@, Unwrap(controller(locked.st, self)),
                                                Encode(self))]]

\* Mutant: bond does not look for an existing Bonded entry.
bond_NoBondedCheck(st, self, payee) ==
    update([st EXCEPT !.Payee = StorageInsert(@, self.stash, payee),
                      !.Bonded = StorageInsert(@, self.stash, self.stash)],
           self)

bond(st, self, payee) ==
    IF self.stash \in DOMAIN st.Bonded THEN [res |-> "AlreadyBonded", st |-> st]
    ELSE update([st EXCEPT !.Payee = StorageInsert(@, self.stash, payee),
                           !.Bonded = StorageInsert(@, self.stash, self.stash)],
                self)

set_payee(st, self, payee) ==
    IF ~(self.stash \in DOMAIN st.Bonded) THEN [res |-> "NotStash", st |-> st]
    ELSE [res |-> Ok, st |-> [st EXCEPT !.Payee = StorageInsert(@, self.stash, payee)]]

\* Mutant: set_controller_to_stash does not look at the ledger the stash keys.
set_controller_to_stash_NoCheck(st, self) ==
    IF ~IsSome(self.controller) THEN [res |-> "NotController", st |-> st]
    ELSE IF self.stash = Unwrap(self.controller) THEN [res |-> "AlreadyPaired", st |-> st]
    ELSE [res |-> Ok,
          st |-> [st EXCEPT
                    !.Ledger = StorageInsert(StorageRemove(@, Unwrap(self.controller)),
                                             self.stash, Encode(self)),
                    !.Bonded = StorageInsert(@, self.stash, self.stash)]]

\* Mutant: set_controller_to_stash leaves the entry under the old controller.
set_controller_to_stash_KeepsOld(st, self) ==
    IF ~IsSome(self.controller) THEN [res |-> "NotController", st |-> st]
    ELSE IF self.stash = Unwrap(self.controller) THEN [res |-> "AlreadyPaired", st |-> st]
    ELSE IF IsSome(LedgerGet(st, self.stash))
            /\ Unwrap(LedgerGet(st, self.stash)).stash # self.stash
         THEN [res |-> "BadState", st |-> st]
    ELSE [res |-> Ok,
          st |-> [st EXCEPT
                    !.Ledger = StorageInsert(@, self.stash, Encode(self)),
                    !.Bonded = StorageInsert(@, self.stash, self.stash)]]

set_controller_to_stash(st, self) ==
    IF ~IsSome(self.controller) THEN [res |-> "NotController", st |-> st]
    ELSE IF self.stash = Unwrap(self.controller) THEN [res |-> "AlreadyPaired", st |-> st]
    ELSE IF IsSome(LedgerGet(st, self.stash))
            /\ Unwrap(LedgerGet(st, self.stash)).stash # self.stash
         THEN [res |-> "BadState", st |-> st]
    ELSE [res |-> Ok,
          st |-> [st EXCEPT
                    !.Ledger = StorageInsert(StorageRemove(@, Unwrap(self.controller)),
                                             self.stash, Encode(self)),
                    !.Bonded = StorageInsert(@, self.stash, self.stash)]]

\* Mutant: kill leaves the Ledger entry in place.
kill_KeepsLedger(st, stash, releaseOk) ==
    IF ~IsSome(StorageGet(st.Bonded, stash)) THEN [res |-> "NotStash", st |-> st]
    ELSE LET ctrl == Unwrap(StorageGet(st.Bonded, stash))
         IN  IF ~IsSome(LedgerGet(st, ctrl)) THEN [res |-> "NotController", st |-> st]
             ELSE LET ledger == Unwrap(LedgerGet(st, ctrl))
                      removed == [st EXCEPT !.Bonded = StorageRemove(@, stash),
                                            !.Payee = StorageRemove(@, stash)]
                  IN  IF ledger.stash \in removed.VirtualStakers
                      THEN [res |-> Ok,
                            st |-> [removed EXCEPT !.VirtualStakers = @ \ {ledger.stash}]]
                      ELSE kill_stake(removed, ledger.stash, releaseOk)

\* Mutant: kill leaves the Payee entry in place.
kill_KeepsPayee(st, stash, releaseOk) ==
    IF ~IsSome(StorageGet(st.Bonded, stash)) THEN [res |-> "NotStash", st |-> st]
    ELSE LET ctrl == Unwrap(StorageGet(st.Bonded, stash))
         IN  IF ~IsSome(LedgerGet(st, ctrl)) THEN [res |-> "NotController", st |-> st]
             ELSE LET ledger == Unwrap(LedgerGet(st, ctrl))
                      removed == [st EXCEPT !.Ledger = StorageRemove(@, ctrl),
                                            !.Bonded = StorageRemove(@, stash)]
                  IN  IF ledger.stash \in removed.VirtualStakers
                      THEN [res |-> Ok,
                            st |-> [removed EXCEPT !.VirtualStakers = @ \ {ledger.stash}]]
                      ELSE kill_stake(removed, ledger.stash, releaseOk)

kill(st, stash, releaseOk) ==
    IF ~IsSome(StorageGet(st.Bonded, stash)) THEN [res |-> "NotStash", st |-> st]
    ELSE LET ctrl == Unwrap(StorageGet(st.Bonded, stash))
         IN  IF ~IsSome(LedgerGet(st, ctrl)) THEN [res |-> "NotController", st |-> st]
             ELSE LET ledger == Unwrap(LedgerGet(st, ctrl))
                      removed == [st EXCEPT !.Ledger = StorageRemove(@, ctrl),
                                            !.Bonded = StorageRemove(@, stash),
                                            !.Payee = StorageRemove(@, stash)]
                  IN  IF ledger.stash \in removed.VirtualStakers
                      THEN [res |-> Ok,
                            st |-> [removed EXCEPT !.VirtualStakers = @ \ {ledger.stash}]]
                      ELSE kill_stake(removed, ledger.stash, releaseOk)

\* ------------------------------------------------------------- actions
Commit(out) ==
    /\ Ledger' = out.st.Ledger
    /\ Bonded' = out.st.Bonded
    /\ Payee' = out.st.Payee
    /\ VirtualStakers' = out.st.VirtualStakers
    /\ lock' = out.st.lock
    /\ result' = out.res

StorageUnchanged == UNCHANGED <<Ledger, Bonded, Payee, VirtualStakers, lock>>

New(stash, stake) ==
    /\ handle' = Some(new(stash, stake))
    /\ last' = "new"
    /\ result' = Ok
    /\ StorageUnchanged
    /\ UNCHANGED nonLedgerVars

Get(account) ==
    LET out == get(Storage, account)
    IN  /\ handle' = IF out.res = Ok THEN Some(out.ledger) ELSE handle
        /\ last' = "get"
        /\ result' = out.res
        /\ StorageUnchanged
        /\ UNCHANGED nonLedgerVars

Update ==
    /\ IsSome(handle)
    /\ Commit(update(Storage, Unwrap(handle)))
    /\ last' = "update"
    /\ UNCHANGED handle
    /\ UNCHANGED nonLedgerVars

Bond(payee) ==
    /\ IsSome(handle)
    /\ Commit(bond(Storage, Unwrap(handle), payee))
    /\ last' = "bond"
    /\ UNCHANGED handle
    /\ UNCHANGED nonLedgerVars

SetPayee(payee) ==
    /\ IsSome(handle)
    /\ Commit(set_payee(Storage, Unwrap(handle), payee))
    /\ last' = "set_payee"
    /\ UNCHANGED handle
    /\ UNCHANGED nonLedgerVars

SetControllerToStash ==
    /\ IsSome(handle)
    /\ Commit(set_controller_to_stash(Storage, Unwrap(handle)))
    /\ last' = "set_controller_to_stash"
    /\ UNCHANGED handle
    /\ UNCHANGED nonLedgerVars

Kill(stash, releaseOk) ==
    /\ Commit(kill(Storage, stash, releaseOk))
    /\ last' = "kill"
    /\ UNCHANGED handle
    /\ UNCHANGED nonLedgerVars

\* The caller's stake-changing mutations of its in-memory copy, between get
\* and update: bond_extra, unbond (a new unlocking chunk) and
\* withdraw_unbonded (the oldest chunk leaves).  A chunk's era is read by no
\* operation of the ledger API and is left out.
bond_extra(self, extra) ==
    [self EXCEPT !.total = @ + extra, !.active = @ + extra]
unbond(self, value) ==
    [self EXCEPT !.active = @ - value,
                 !.unlocking = Append(@, [value |-> value])]
withdraw_unbonded(self) ==
    [self EXCEPT !.total = @ - self.unlocking[1].value,
                 !.unlocking = Tail(@)]

BondExtra(extra) ==
    /\ IsSome(handle)
    /\ Unwrap(handle).total + extra <= MaxStake
    /\ handle' = Some(bond_extra(Unwrap(handle), extra))
    /\ last' = "bond_extra"
    /\ result' = Ok
    /\ StorageUnchanged
    /\ UNCHANGED nonLedgerVars

Unbond(value) ==
    /\ IsSome(handle)
    /\ value <= Unwrap(handle).active
    /\ Len(Unwrap(handle).unlocking) < MaxChunks
    /\ handle' = Some(unbond(Unwrap(handle), value))
    /\ last' = "unbond"
    /\ result' = Ok
    /\ StorageUnchanged
    /\ UNCHANGED nonLedgerVars

WithdrawUnbonded ==
    /\ IsSome(handle)
    /\ Unwrap(handle).unlocking # <<>>
    /\ handle' = Some(withdraw_unbonded(Unwrap(handle)))
    /\ last' = "withdraw_unbonded"
    /\ result' = Ok
    /\ StorageUnchanged
    /\ UNCHANGED nonLedgerVars

\* An unbonded account that holds no lock is flagged as a virtual staker.
MarkVirtual(stash) ==
    /\ ~is_bonded(Storage, Stash(stash))
    /\ stash \notin VirtualStakers
    /\ lock[stash] = 0
    /\ VirtualStakers' = VirtualStakers \cup {stash}
    /\ last' = "mark_virtual"
    /\ result' = Ok
    /\ UNCHANGED <<Ledger, Bonded, Payee, lock, handle>>
    /\ UNCHANGED nonLedgerVars

\* No concurrent writer runs.
Writers == {"w1", "w2"}
Idle == [pc |-> "idle", copy |-> None, base |-> None, mut |-> "none",
         atomic |-> FALSE, res |-> Ok]
WritersIdle ==
    /\ writer = [w \in Writers |-> Idle]
    /\ committed = <<>>
    /\ expected = None
\* No leaf is in hand.
LeafIdle ==
    /\ item = None
    /\ codec = [op |-> "none"]
\* The MMR is empty and was never called.
EmptyMmr == [nodes |-> <<>>, leaves |-> <<>>, leaf_count |-> 0]
MmrIdle ==
    /\ mmr = EmptyMmr
    /\ returned = <<>>
    /\ reply = [op |-> "none"]
    /\ held = None
\* The auto-tasks pallet at genesis, never called.
TasksIdle ==
    /\ Numbers = <<>>
    /\ Total = <<<<0, 0>>, <<0, 0>>>>
    /\ pool = {}
    /\ block = 0
    /\ build = [experimental |-> FALSE, overflow_checks |-> FALSE]
    /\ call = [op |-> "none"]
    /\ processed = <<<<0, 0>>, <<0, 0>>>>
    /\ stores = 0
\* The identity pallet at genesis, never called.
IdentityIdle ==
    /\ IdentityOf = <<>>
    /\ Registrars = <<>>
    /\ SubsOf = <<>>
    /\ SuperOf = <<>>
    /\ reserved = [a \in Accounts |-> 0]
    /\ UsernameOf = <<>>
    /\ UsernameInfoOf = <<>>
    /\ PendingUsernames = <<>>
    /\ UnbindingUsernames = <<>>
    /\ AuthorityOf = <<>>
    /\ now = 1
    /\ dispatched = [op |-> "none"]

Init ==
    /\ Ledger = <<>>
    /\ Bonded = <<>>
    /\ Payee = <<>>
    /\ VirtualStakers = {}
    /\ lock = [a \in Accounts |-> 0]
    /\ handle = None
    /\ last = "init"
    /\ result = Ok
    /\ WritersIdle
    /\ LeafIdle
    /\ MmrIdle
    /\ TasksIdle
    /\ IdentityIdle
    /\ WritersIdle

Next ==
    \/ \E s \in Accounts, v \in Balances : New(s, v)
    \/ \E a \in Accounts : Get(Stash(a)) \/ Get(Controller(a))
    \/ Update
    \/ \E p \in RewardDestinations : Bond(p)
    \/ \E p \in RewardDestinations : SetPayee(p)
    \/ SetControllerToStash
    \/ \E s \in Accounts, ok \in BOOLEAN : Kill(s, ok)
    \/ BondExtra(1)
    \/ Unbond(1)
    \/ WithdrawUnbonded
    \/ \E s \in Accounts : MarkVirtual(s)

Spec == Init /\ [][Next]_vars

\* Storage as the deprecated controller accounts left it: any stash may be
\* bonded to any controller and any controller may hold the ledger of any
\* stash, the inconsistent ("bad state") pairings included.
LegacyLedgers == {Encode(new(s, 1)) : s \in Accounts}
InitLegacy ==
    /\ \E ks \in SUBSET Accounts : Ledger \in [ks -> LegacyLedgers]
    /\ \E ks \in SUBSET Accounts : Bonded \in [ks -> Accounts]
    /\ Payee = [s \in DOMAIN Bonded |-> "Staked"]
    /\ VirtualStakers = {}
    /\ lock = [a \in Accounts |->
                 IF \E c \in DOMAIN Ledger : Ledger[c].stash = a THEN 1 ELSE 0]
    /\ handle = None
    /\ last = "init"
    /\ result = Ok
    /\ WritersIdle
    /\ LeafIdle
    /\ MmrIdle
    /\ TasksIdle
    /\ IdentityIdle
    /\ WritersIdle

NextLegacy ==
    \/ \E s \in Accounts, v \in Balances : New(s, v)
    \/ \E a \in Accounts : Get(Stash(a)) \/ Get(Controller(a))
    \/ Update
    \/ SetControllerToStash
    \/ \E s \in Accounts, ok \in BOOLEAN : Kill(s, ok)

SpecLegacy == InitLegacy /\ [][NextLegacy]_vars

\* ------------------------------------------------- concurrent writers
\* Two writers run get -> mutate -> update on the one bonded stash.  A writer
\* either takes the three steps one at a time, other writers' steps in
\* between, or runs them as one serialized step (WriterTransaction).
Mutations == {"bond_extra", "unbond"}
mutate(self, m) ==
    IF m = "bond_extra" THEN bond_extra(self, 1) ELSE unbond(self, 1)
CanMutate(self, m) ==
    IF m = "bond_extra"
    THEN self.total + 1 <= MaxStake
    ELSE 1 <= self.active /\ Len(self.unlocking) < MaxChunks

EmptyStorage ==
    [Ledger |-> <<>>, Bonded |-> <<>>, Payee |-> <<>>, VirtualStakers |-> {},
     lock |-> [a \in Accounts |-> 0]]

\* One stash is bonded, as new(s, v).bond(payee) leaves it.
InitWriters ==
    /\ \E s \in Accounts, v \in Balances :
          LET out == bond(EmptyStorage, new(s, v), "Staked")
          IN  /\ out.res = Ok
              /\ Ledger = out.st.Ledger
              /\ Bonded = out.st.Bonded
              /\ Payee = out.st.Payee
              /\ VirtualStakers = out.st.VirtualStakers
              /\ lock = out.st.lock
              /\ expected = Some(Encode(new(s, v)))
    /\ handle = None
    /\ last = "init"
    /\ result = Ok
    /\ writer = [w \in Writers |-> Idle]
    /\ committed = <<>>
    /\ LeafIdle
    /\ MmrIdle
    /\ TasksIdle
    /\ IdentityIdle

WriterGet(w) ==
    /\ writer[w].pc = "idle"
    /\ \E s \in DOMAIN Bonded :
          LET out == get(Storage, Stash(s))
          IN  /\ out.res = Ok
              /\ writer' = [writer EXCEPT ![w] =
                    [@ EXCEPT !.pc = "read", !.copy = Some(out.ledger),
                              !.base = Some(Encode(out.ledger))]]
    /\ last' = "get"
    /\ result' = Ok
    /\ StorageUnchanged
    /\ UNCHANGED <<committed, expected>>
    /\ UNCHANGED nonWriterVars

WriterMutate(w, m) ==
    /\ writer[w].pc = "read"
    /\ CanMutate(Unwrap(writer[w].copy), m)
    /\ writer' = [writer EXCEPT ![w] =
          [@ EXCEPT !.pc = "mutated", !.mut = m,
                    !.copy = Some(mutate(Unwrap(writer[w].copy), m))]]
    /\ last' = m
    /\ result' = Ok
    /\ StorageUnchanged
    /\ UNCHANGED <<committed, expected>>
    /\ UNCHANGED nonWriterVars

WriterUpdate(w) ==
    /\ writer[w].pc = "mutated"
    /\ LET out == update(Storage, Unwrap(writer[w].copy))
       IN  /\ Commit(out)
           /\ writer' = [writer EXCEPT ![w] = [@ EXCEPT !.pc = "done", !.res = out.res]]
           /\ committed' = IF out.res = Ok THEN Append(committed, w) ELSE committed
           /\ expected' = IF out.res = Ok
                          THEN Some(mutate(Unwrap(expected), writer[w].mut))
                          ELSE expected
    /\ last' = "update"
    /\ UNCHANGED nonWriterVars

\* get -> mutate -> update of one writer as one serialized step.
WriterTransaction(w, m) ==
    /\ writer[w].pc = "idle"
    /\ \E s \in DOMAIN Bonded :
          LET read == get(Storage, Stash(s))
          IN  /\ read.res = Ok
              /\ CanMutate(read.ledger, m)
              /\ LET out == update(Storage, mutate(read.ledger, m))
                 IN  /\ Commit(out)
                     /\ writer' = [writer EXCEPT ![w] =
                           [pc |-> "done", copy |-> Some(mutate(read.ledger, m)),
                            base |-> Some(Encode(read.ledger)), mut |-> m,
                            atomic |-> TRUE, res |-> out.res]]
                     /\ committed' = IF out.res = Ok THEN Append(committed, w)
                                     ELSE committed
                     /\ expected' = IF out.res = Ok
                                    THEN Some(mutate(Unwrap(expected), m))
                                    ELSE expected
    /\ last' = "update"
    /\ UNCHANGED nonWriterVars

NextWriters ==
    \/ \E w \in Writers : WriterGet(w)
    \/ \E w \in Writers, m \in Mutations : WriterMutate(w, m)
    \/ \E w \in Writers : WriterUpdate(w)
    \/ \E w \in Writers, m \in Mutations : WriterTransaction(w, m)

SpecWriters == InitWriters /\ [][NextWriters]_vars

\* ------------------------------------------------- MMR leaf codec
\* (substrate/primitives/merkle-mountain-range/src/lib.rs)
\* Encoded data is a sequence of symbols.  A symbol is a byte, or a digest:
\* the output of H, taken as collision-free and one symbol wide.
Byte(n) == [byte |-> n]
H(data) == [digest |-> data]
IsByte(sym) == "byte" \in DOMAIN sym

\* DataOrHash<H, L>
Data(l) == [kind |-> "Data", leaf |-> l]
Hash(h) == [kind |-> "Hash", hash |-> h]
\* Leaf types L: String, and Compact<H, (DataOrHash<H, String>, ...)>.
StringLeaf(data) == [type |-> "String", data |-> data]
Compact(tuple) == [type |-> "Compact", tuple |-> tuple]
StringType == [type |-> "String"]
CompactType(n) == [type |-> "Compact", arity |-> n]
IsNode(x) == "kind" \in DOMAIN x
LeafType(l) == IF l.type = "String" THEN StringType ELSE CompactType(Len(l.tuple))

\* SCALE: Vec<u8>, &[u8] and String are a compact length, then the content.
\* Lengths below 64 take one byte, the length shifted left by two.
encode_bytes(data) == <<Byte(4 * Len(data))>> \o data
decode_bytes(input) ==
    IF input = <<>> THEN [ok |-> FALSE]
    ELSE IF ~IsByte(input[1]) THEN [ok |-> FALSE]
    ELSE IF input[1].byte % 4 # 0 THEN [ok |-> FALSE]
    ELSE LET n == input[1].byte \div 4
         IN  IF Len(input) - 1 < n THEN [ok |-> FALSE]
             ELSE [ok |-> TRUE, value |-> SubSeq(input, 2, n + 1),
                   rest |-> SubSeq(input, n + 2, Len(input))]

RECURSIVE using_encoded(_, _), encode_to(_), hash(_), encode_tuple(_)

\* Mutant: hash of a Data node takes the leaf's full encoding.
hash_Full(node) ==
    IF node.kind = "Data" THEN H(using_encoded(node.leaf, FALSE)) ELSE node.hash

\* Mutant: hash of a Hash node hashes the contained hash again.
hash_Rehash(node) ==
    IF node.kind = "Data" THEN H(using_encoded(node.leaf, TRUE)) ELSE H(<<node.hash>>)

hash(node) ==
    IF node.kind = "Data" THEN H(using_encoded(node.leaf, TRUE)) ELSE node.hash

\* Mutant: a Data node is written without the length of its data.
encode_to_NoLength(node) ==
    IF node.kind = "Data"
    THEN <<Byte(0)>> \o using_encoded(node.leaf, FALSE)
    ELSE <<Byte(1), node.hash>>

\* Either::Left(data) is tag 0 and the data as &[u8]; Either::Right(h) is
\* tag 1 and the hash.
encode_to(node) ==
    IF node.kind = "Data"
    THEN <<Byte(0)>> \o encode_bytes(using_encoded(node.leaf, FALSE))
    ELSE <<Byte(1), node.hash>>

encode_tuple(tuple) ==
    IF tuple = <<>> THEN <<>>
    ELSE encode_to(Head(tuple)) \o encode_tuple(Tail(tuple))

\* Mutant: a Compact leaf has one encoding, the full one.
using_encoded_IgnoresCompact(leaf, compact) ==
    IF leaf.type = "String" THEN encode_bytes(leaf.data)
    ELSE encode_tuple(leaf.tuple)

\* Mutant: the compact form hides the first tuple element only.
using_encoded_HidesFirst(leaf, compact) ==
    IF leaf.type = "String" THEN encode_bytes(leaf.data)
    ELSE IF compact
         THEN encode_tuple([i \in DOMAIN leaf.tuple |->
                              IF i = 1 THEN Hash(hash(leaf.tuple[i]))
                              ELSE leaf.tuple[i]])
         ELSE encode_tuple(leaf.tuple)

\* FullLeaf::using_encoded: a plain leaf has its SCALE encoding in both
\* forms; a Compact leaf in compact form is the tuple of its elements' hashes.
using_encoded(leaf, compact) ==
    IF leaf.type = "String" THEN encode_bytes(leaf.data)
    ELSE IF compact
         THEN encode_tuple([i \in DOMAIN leaf.tuple |-> Hash(hash(leaf.tuple[i]))])
         ELSE encode_tuple(leaf.tuple)

\* Compact::hash (the test helper): the hash of the compact form.
Compact_hash(leaf) == H(using_encoded(leaf, TRUE))

RECURSIVE decode(_, _), decode_tuple(_, _), decode_leaf(_, _)
\* L::decode for the two leaf types; Compact::decode is the tuple's decode.
decode_leaf(input, L) ==
    IF L.type = "String"
    THEN LET bytes == decode_bytes(input)
         IN  IF ~bytes.ok THEN [ok |-> FALSE]
             ELSE [ok |-> TRUE, value |-> StringLeaf(bytes.value), rest |-> bytes.rest]
    ELSE LET tuple == decode_tuple(input, L.arity)
         IN  IF ~tuple.ok THEN [ok |-> FALSE]
             ELSE [ok |-> TRUE, value |-> Compact(tuple.value), rest |-> tuple.rest]

\* DataOrHash::decode: Either<Vec<u8>, H::Output>::decode, then L::decode on
\* the bytes of a Left.
decode(input, L) ==
    IF input = <<>> THEN [ok |-> FALSE]
    ELSE IF input[1] = Byte(0)
    THEN LET l == decode_bytes(Tail(input))
         IN  IF ~l.ok THEN [ok |-> FALSE]
             ELSE LET leaf == decode_leaf(l.value, L)
                  IN  IF ~leaf.ok THEN [ok |-> FALSE]
                      ELSE [ok |-> TRUE, value |-> Data(leaf.value), rest |-> l.rest]
    ELSE IF input[1] = Byte(1)
    THEN IF Len(input) < 2 THEN [ok |-> FALSE]
         ELSE [ok |-> TRUE, value |-> Hash(input[2]),
               rest |-> SubSeq(input, 3, Len(input))]
    ELSE [ok |-> FALSE]

\* (DataOrHash<H, String>, ...)::decode, element by element.
decode_tuple(input, n) ==
    IF n = 0 THEN [ok |-> TRUE, value |-> <<>>, rest |-> input]
    ELSE LET first == decode(input, StringType)
         IN  IF ~first.ok THEN [ok |-> FALSE]
             ELSE LET others == decode_tuple(first.rest, n - 1)
                  IN  IF ~others.ok THEN [ok |-> FALSE]
                      ELSE [ok |-> TRUE, value |-> <<first.value>> \o others.value,
                            rest |-> others.rest]

\* Result<_, codec::Error> of a decode call.
DecodeResult(r) == IF r.ok THEN [res |-> Ok, value |-> r.value] ELSE [res |-> "Error"]

\* The leaves and nodes the codec is run on: String leaves (the empty one,
\* and one whose text is the bytes of a digest), hashes (of leaves, and one
\* that is the hash of nothing known), Compact tuples of such nodes, and
\* Data nodes around Compact tuples.
LeafSymbols == {Byte(7), H(<<>>)}
StringLeaves ==
    {StringLeaf(data) :
        data \in UNION {[1..n -> LeafSymbols] : n \in 0..MaxLeafLen}}
HashValues == {Byte(9)} \cup {hash(Data(l)) : l \in StringLeaves}
StringNodes == {Data(l) : l \in StringLeaves} \cup {Hash(h) : h \in HashValues}
CompactLeaves ==
    {Compact(tuple) : tuple \in UNION {[1..n -> StringNodes] : n \in 1..MaxArity}}
Items == StringNodes \cup CompactLeaves \cup {Data(l) : l \in CompactLeaves}

InitLeaf ==
    /\ item \in Items
    /\ codec = [op |-> "none"]
    /\ Ledger = <<>>
    /\ Bonded = <<>>
    /\ Payee = <<>>
    /\ VirtualStakers = {}
    /\ lock = [a \in Accounts |-> 0]
    /\ handle = None
    /\ last = "init"
    /\ result = Ok
    /\ WritersIdle
    /\ MmrIdle
    /\ TasksIdle
    /\ IdentityIdle

\* codec::Encode::encode of a DataOrHash node.
EncodeNode ==
    /\ IsNode(item)
    /\ codec' = [op |-> "encode", compact |-> FALSE, bytes |-> encode_to(item)]
    /\ UNCHANGED item
    /\ UNCHANGED nonLeafVars

\* using_encoded(|x| x.to_vec(), compact) of a Compact leaf.
UsingEncoded(compact) ==
    /\ ~IsNode(item)
    /\ codec' = [op |-> "encode", compact |-> compact,
                 bytes |-> using_encoded(item, compact)]
    /\ UNCHANGED item
    /\ UNCHANGED nonLeafVars

\* decode of the bytes just produced, at the type of the item.
DecodeBytes ==
    /\ codec.op = "encode"
    /\ codec' = [op |-> "decode", compact |-> codec.compact, bytes |-> codec.bytes,
                 decoded |-> DecodeResult(
                     IF IsNode(item)
                     THEN decode(codec.bytes,
                                 IF item.kind = "Data" THEN LeafType(item.leaf)
                                 ELSE StringType)
                     ELSE decode_leaf(codec.bytes, LeafType(item)))]
    /\ UNCHANGED item
    /\ UNCHANGED nonLeafVars

\* hash() of a node, Compact::hash of a Compact leaf.
HashItem ==
    /\ codec' = [op |-> "hash",
                 digest |-> IF IsNode(item) THEN hash(item) ELSE Compact_hash(item)]
    /\ UNCHANGED item
    /\ UNCHANGED nonLeafVars

\* Element i of a Compact leaf is replaced by the Hash node of its hash.
hide(leaf, chosen) ==
    Compact([i \in DOMAIN leaf.tuple |->
                IF i \in chosen THEN Hash(hash(leaf.tuple[i])) ELSE leaf.tuple[i]])
Hide(i) ==
    /\ ~IsNode(item)
    /\ i \in DOMAIN item.tuple
    /\ item.tuple[i].kind = "Data"
    /\ item' = hide(item, {i})
    /\ codec' = [op |-> "hide", before |-> item]
    /\ UNCHANGED nonLeafVars

NextLeaf ==
    \/ EncodeNode
    \/ \E compact \in BOOLEAN : UsingEncoded(compact)
    \/ DecodeBytes
    \/ HashItem
    \/ \E i \in 1..MaxArity : Hide(i)

SpecLeaf == InitLeaf /\ [][NextLeaf]_vars

\* ------------------------------------------------- MMR accumulator
\* The forest of perfect binary trees over the appended leaves, its nodes in
\* one flat array in the order they were created (a tree's nodes: its left
\* subtree, its right subtree, its root).  NodeIndex i is nodes[i + 1].
\* Mutant: the proof carries its items in the opposite order.
LeafProof_ItemsReversed(leaf_indices, leaf_count, items) ==
    [leaf_indices |-> leaf_indices, leaf_count |-> leaf_count,
     items |-> [k \in DOMAIN items |-> items[Len(items) + 1 - k]]]

LeafProof(leaf_indices, leaf_count, items) ==
    [leaf_indices |-> leaf_indices, leaf_count |-> leaf_count, items |-> items]

RECURSIVE TopHeight(_)
TopHeight(n) == IF n < 2 THEN 0 ELSE 1 + TopHeight(n \div 2)

\* The peaks of an MMR of n leaves, by decreasing height: one per 1 bit of
\* n.  leaf is the peak's first leaf index, offset its first node index, pos
\* the node index of its root.
RECURSIVE PeaksFrom(_, _, _)
PeaksFrom(n, leaf, offset) ==
    IF n = 0 THEN <<>>
    ELSE LET h == TopHeight(n)
             size == 2^(h + 1) - 1
         IN  <<[height |-> h, leaf |-> leaf, offset |-> offset,
                pos |-> offset + size - 1]>>
                 \o PeaksFrom(n - 2^h, leaf + 2^h, offset + size)
peaks(n) == PeaksFrom(n, 0, 0)

NodeAt(m, pos) == m.nodes[pos + 1]

\* Mutant: the cascade stops after one merge.
carry_MergesOnce(nodes, stack) ==
    LET n == Len(stack)
    IN  IF n >= 2 /\ stack[n].height = stack[n - 1].height
        THEN Append(nodes, H(<<nodes[stack[n - 1].pos + 1], nodes[stack[n].pos + 1]>>))
        ELSE nodes

\* The carry-merge cascade: while the two rightmost peaks have one height
\* they combine into a parent H(left ++ right), the next node of the array.
RECURSIVE carry(_, _)
carry(nodes, stack) ==
    LET n == Len(stack)
    IN  IF n >= 2 /\ stack[n].height = stack[n - 1].height
        THEN carry(Append(nodes, H(<<nodes[stack[n - 1].pos + 1],
                                     nodes[stack[n].pos + 1]>>)),
                   Append(SubSeq(stack, 1, n - 2),
                          [height |-> stack[n].height + 1, pos |-> Len(nodes)]))
        ELSE nodes

\* Mutant: append stores the nodes and leaves the leaf count as it was.
append_KeepsCount(m, leaf, pushOk) ==
    IF ~pushOk THEN [res |-> "Push", m |-> m]
    ELSE [res |-> Ok, index |-> Len(m.nodes),
          m |-> [nodes |-> carry(Append(m.nodes, hash(Data(leaf))),
                                 Append([i \in DOMAIN peaks(m.leaf_count) |->
                                            [height |-> peaks(m.leaf_count)[i].height,
                                             pos |-> peaks(m.leaf_count)[i].pos]],
                                        [height |-> 0, pos |-> Len(m.nodes)])),
                 leaves |-> Append(m.leaves, leaf),
                 leaf_count |-> m.leaf_count]]

\* Mutant: a refused write empties the MMR.
append_PushResets(m, leaf, pushOk) ==
    IF ~pushOk THEN [res |-> "Push", m |-> EmptyMmr]
    ELSE [res |-> Ok, index |-> Len(m.nodes),
          m |-> [nodes |-> carry(Append(m.nodes, hash(Data(leaf))),
                                 Append([i \in DOMAIN peaks(m.leaf_count) |->
                                            [height |-> peaks(m.leaf_count)[i].height,
                                             pos |-> peaks(m.leaf_count)[i].pos]],
                                        [height |-> 0, pos |-> Len(m.nodes)])),
                 leaves |-> Append(m.leaves, leaf),
                 leaf_count |-> m.leaf_count + 1]]

\* Mutant: a refused write leaves the node of the leaf behind.
append_PushLeavesNode(m, leaf, pushOk) ==
    IF ~pushOk THEN [res |-> "Push",
                     m |-> [m EXCEPT !.nodes = Append(@, hash(Data(leaf)))]]
    ELSE [res |-> Ok, index |-> Len(m.nodes),
          m |-> [nodes |-> carry(Append(m.nodes, hash(Data(leaf))),
                                 Append([i \in DOMAIN peaks(m.leaf_count) |->
                                            [height |-> peaks(m.leaf_count)[i].height,
                                             pos |-> peaks(m.leaf_count)[i].pos]],
                                        [height |-> 0, pos |-> Len(m.nodes)])),
                 leaves |-> Append(m.leaves, leaf),
                 leaf_count |-> m.leaf_count + 1]]

\* Mutant: append returns the index of the last node the cascade created.
append_ReturnsLast(m, leaf, pushOk) ==
    IF ~pushOk THEN [res |-> "Push", m |-> m]
    ELSE LET nodes == carry(Append(m.nodes, hash(Data(leaf))),
                            Append([i \in DOMAIN peaks(m.leaf_count) |->
                                       [height |-> peaks(m.leaf_count)[i].height,
                                        pos |-> peaks(m.leaf_count)[i].pos]],
                                   [height |-> 0, pos |-> Len(m.nodes)]))
         IN  [res |-> Ok, index |-> Len(nodes) - 1,
              m |-> [nodes |-> nodes,
                     leaves |-> Append(m.leaves, leaf),
                     leaf_count |-> m.leaf_count + 1]]

\* append(leaf) -> NodeIndex: the leaf takes the next node index, which is
\* returned; Error::Push when the backing store refuses the write.
append(m, leaf, pushOk) ==
    IF ~pushOk THEN [res |-> "Push", m |-> m]
    ELSE [res |-> Ok, index |-> Len(m.nodes),
          m |-> [nodes |-> carry(Append(m.nodes, hash(Data(leaf))),
                                 Append([i \in DOMAIN peaks(m.leaf_count) |->
                                            [height |-> peaks(m.leaf_count)[i].height,
                                             pos |-> peaks(m.leaf_count)[i].pos]],
                                        [height |-> 0, pos |-> Len(m.nodes)])),
                 leaves |-> Append(m.leaves, leaf),
                 leaf_count |-> m.leaf_count + 1]]

\* Bagging: from the lowest peak to the highest, acc = H(acc ++ peak); one
\* peak is the root itself; no peak gives the empty-tree constant.
EmptyRoot == H(<<>>)
RECURSIVE bag_from(_, _)
bag_from(acc, hashes) ==
    IF hashes = <<>> THEN acc
    ELSE bag_from(H(<<acc, hashes[Len(hashes)]>>), SubSeq(hashes, 1, Len(hashes) - 1))
\* Mutant: the root is the highest peak, the lower peaks are left out.
bagging_HighestPeakOnly(hashes) ==
    IF hashes = <<>> THEN EmptyRoot ELSE hashes[1]

bagging(hashes) ==
    IF hashes = <<>> THEN EmptyRoot
    ELSE bag_from(hashes[Len(hashes)], SubSeq(hashes, 1, Len(hashes) - 1))

mmr_leaf_count(m) == m.leaf_count
mmr_root(m) ==
    bagging([i \in DOMAIN peaks(m.leaf_count) |-> NodeAt(m, peaks(m.leaf_count)[i].pos)])

RECURSIVE SortedSeq(_)
SortedSeq(S) ==
    IF S = {} THEN <<>>
    ELSE LET least == CHOOSE x \in S : \A y \in S : x <= y
         IN  <<least>> \o SortedSeq(S \ {least})

InTree(S, leaf, h) == \E i \in S : leaf <= i /\ i < leaf + 2^h

\* The items of one tree, left to right: the root hash of every largest
\* subtree that holds no requested leaf (the siblings on the leaves' paths,
\* each once; a peak without a requested leaf is such a subtree itself).
RECURSIVE proof_items(_, _, _, _, _)
proof_items(m, S, leaf, h, offset) ==
    IF ~InTree(S, leaf, h) THEN <<NodeAt(m, offset + 2^(h + 1) - 2)>>
    ELSE IF h = 0 THEN <<>>
    ELSE proof_items(m, S, leaf, h - 1, offset)
            \o proof_items(m, S, leaf + 2^(h - 1), h - 1, offset + 2^h - 1)

\* Mutant: a peak without a requested leaf gives no item.
RECURSIVE items_of_peaks_TouchedOnly(_, _, _)
items_of_peaks_TouchedOnly(m, S, ps) ==
    IF ps = <<>> THEN <<>>
    ELSE (IF InTree(S, ps[1].leaf, ps[1].height)
          THEN proof_items(m, S, ps[1].leaf, ps[1].height, ps[1].offset)
          ELSE <<>>)
            \o items_of_peaks_TouchedOnly(m, S, Tail(ps))

RECURSIVE items_of_peaks(_, _, _)
items_of_peaks(m, S, ps) ==
    IF ps = <<>> THEN <<>>
    ELSE proof_items(m, S, ps[1].leaf, ps[1].height, ps[1].offset)
            \o items_of_peaks(m, S, Tail(ps))

\* generate_proof(leaf_indices) -> (leaves, LeafProof)
generate_proof(m, S) ==
    IF \E i \in S : i >= m.leaf_count THEN [res |-> "LeafNotFound"]
    ELSE [res |-> Ok,
          leaves |-> [k \in DOMAIN SortedSeq(S) |-> m.leaves[SortedSeq(S)[k] + 1]],
          proof |-> LeafProof(SortedSeq(S), m.leaf_count,
                              items_of_peaks(m, S, peaks(m.leaf_count)))]

\* The verifier's fold: the hash of one tree from the leaves given and the
\* items, taken in order; items is what is left of them.
RECURSIVE calculate(_, _, _, _, _)
calculate(proof, leaves, leaf, h, items) ==
    LET S == {proof.leaf_indices[k] : k \in DOMAIN proof.leaf_indices}
    IN  IF ~InTree(S, leaf, h)
        THEN IF items = <<>> THEN [ok |-> FALSE]
             ELSE [ok |-> TRUE, hash |-> items[1], items |-> Tail(items)]
        ELSE IF h = 0
        THEN LET k == CHOOSE k \in DOMAIN proof.leaf_indices :
                          proof.leaf_indices[k] = leaf
             IN  [ok |-> TRUE, hash |-> hash(Data(leaves[k])), items |-> items]
        ELSE LET left == calculate(proof, leaves, leaf, h - 1, items)
             IN  IF ~left.ok THEN [ok |-> FALSE]
                 ELSE LET right == calculate(proof, leaves, leaf + 2^(h - 1), h - 1,
                                             left.items)
                      IN  IF ~right.ok THEN [ok |-> FALSE]
                          ELSE [ok |-> TRUE, hash |-> H(<<left.hash, right.hash>>),
                                items |-> right.items]

RECURSIVE calculate_peaks(_, _, _, _)
calculate_peaks(proof, leaves, ps, items) ==
    IF ps = <<>> THEN [ok |-> TRUE, hashes |-> <<>>, items |-> items]
    ELSE LET first == calculate(proof, leaves, ps[1].leaf, ps[1].height, items)
         IN  IF ~first.ok THEN [ok |-> FALSE]
             ELSE LET others == calculate_peaks(proof, leaves, Tail(ps), first.items)
                  IN  IF ~others.ok THEN [ok |-> FALSE]
                      ELSE [ok |-> TRUE, hashes |-> <<first.hash>> \o others.hashes,
                            items |-> others.items]

\* Mutant: the verifier recomputes the peaks and compares them with nothing.
verify_proof_stateless_IgnoresRoot(root, leaves, proof) ==
    IF \/ Len(leaves) # Len(proof.leaf_indices)
       \/ \E k \in DOMAIN proof.leaf_indices : proof.leaf_indices[k] >= proof.leaf_count
    THEN "Verify"
    ELSE LET got == calculate_peaks(proof, leaves, peaks(proof.leaf_count), proof.items)
         IN  IF got.ok /\ got.items = <<>> THEN Ok ELSE "Verify"

\* verify_proof_stateless(root, leaves, proof): no storage is read.
verify_proof_stateless(root, leaves, proof) ==
    IF \/ Len(leaves) # Len(proof.leaf_indices)
       \/ \E k \in DOMAIN proof.leaf_indices : proof.leaf_indices[k] >= proof.leaf_count
    THEN "Verify"
    ELSE LET got == calculate_peaks(proof, leaves, peaks(proof.leaf_count), proof.items)
         IN  IF got.ok /\ got.items = <<>> /\ bagging(got.hashes) = root
             THEN Ok ELSE "Verify"

\* verify_proof(leaves, proof): against the root on chain.
verify_proof(m, leaves, proof) == verify_proof_stateless(mmr_root(m), leaves, proof)

\* The leaves appended: "a", "b", "c".
LeafValues == {StringLeaf(<<Byte(97)>>), StringLeaf(<<Byte(98)>>), StringLeaf(<<Byte(99)>>)}

InitMmr ==
    /\ MmrIdle
    /\ TasksIdle
    /\ IdentityIdle
    /\ LeafIdle
    /\ WritersIdle
    /\ Ledger = <<>>
    /\ Bonded = <<>>
    /\ Payee = <<>>
    /\ VirtualStakers = {}
    /\ lock = [a \in Accounts |-> 0]
    /\ handle = None
    /\ last = "init"
    /\ result = Ok

MmrAppend(leaf, pushOk) ==
    /\ mmr.leaf_count < MaxLeaves
    /\ LET pushed == append(mmr, leaf, pushOk)
       IN  /\ mmr' = pushed.m
           /\ returned' = IF pushed.res = Ok THEN Append(returned, pushed.index)
                          ELSE returned
           /\ reply' = IF pushed.res = Ok
                       THEN [op |-> "append", res |-> Ok, index |-> pushed.index]
                       ELSE [op |-> "append", res |-> pushed.res]
    /\ UNCHANGED held
    /\ UNCHANGED nonMmrVars

GenerateProof(S) ==
    /\ reply' = [op |-> "generate_proof", asked |-> S] @@ generate_proof(mmr, S)
    /\ UNCHANGED <<mmr, returned, held>>
    /\ UNCHANGED nonMmrVars

\* verify_proof and verify_proof_stateless of the proof just generated, the
\* latter with the root mmr_root returns.
VerifyProof ==
    /\ reply.op = "generate_proof"
    /\ reply.res = Ok
    /\ reply' = [op |-> "verify_proof", asked |-> reply.asked,
                 leaves |-> reply.leaves, proof |-> reply.proof,
                 root |-> mmr_root(mmr),
                 res |-> verify_proof(mmr, reply.leaves, reply.proof),
                 stateless |-> verify_proof_stateless(mmr_root(mmr), reply.leaves,
                                                      reply.proof)]
    /\ UNCHANGED <<mmr, returned, held>>
    /\ UNCHANGED nonMmrVars

\* mmr_root(): the root on chain.
MmrRoot ==
    /\ reply' = [op |-> "mmr_root", res |-> Ok, root |-> mmr_root(mmr),
                 leaf_count |-> mmr_leaf_count(mmr)]
    /\ UNCHANGED <<mmr, returned, held>>
    /\ UNCHANGED nonMmrVars

NextMmr ==
    \/ \E leaf \in LeafValues, pushOk \in BOOLEAN : MmrAppend(leaf, pushOk)
    \/ \E S \in (SUBSET (0..(MaxLeaves - 1))) \ {{}} : GenerateProof(S)
    \/ VerifyProof
    \/ MmrRoot

SpecMmr == InitMmr /\ [][NextMmr]_vars

\* A client of the API over time: it has a proof generated and keeps it with
\* the root of that moment (one proof, kept from then on), the MMR grows,
\* and it checks the proof it kept against the root it kept and against the
\* root on chain.
KeepProof(S) ==
    /\ held = None
    /\ \A i \in S : i < mmr_leaf_count(mmr)
    /\ LET made == generate_proof(mmr, S)
       IN  /\ reply' = [op |-> "generate_proof", asked |-> S] @@ made
           /\ held' = Some([leaves |-> made.leaves, proof |-> made.proof,
                            root |-> mmr_root(mmr)])
    /\ UNCHANGED <<mmr, returned>>
    /\ UNCHANGED nonMmrVars

VerifyHeld ==
    /\ IsSome(held)
    /\ reply' = [op |-> "verify_held",
                 historical |-> verify_proof_stateless(Unwrap(held).root,
                                                       Unwrap(held).leaves,
                                                       Unwrap(held).proof),
                 current |-> verify_proof(mmr, Unwrap(held).leaves, Unwrap(held).proof)]
    /\ UNCHANGED <<mmr, returned, held>>
    /\ UNCHANGED nonMmrVars

NextHistory ==
    \/ \E leaf \in LeafValues, pushOk \in BOOLEAN : MmrAppend(leaf, pushOk)
    \/ \E S \in (SUBSET (0..(MaxLeaves - 1))) \ {{}} : KeepProof(S)
    \/ VerifyHeld

SpecHistory == InitMmr /\ [][NextHistory]_vars

\* ------------------------------------------------- auto-tasks pallet
\* Numbers: StorageMap<u32, u32, OptionQuery>; Total: StorageValue<(u32, u32),
\* ValueQuery>.  A number is its two 16-bit halves <<high, low>>; a u32 has
\* its high half below 2^16, a true sum may pass it.  A u32 addition that
\* passes U32Max wraps, or panics when the build checks overflow; a panic
\* abandons what the call had written.
Half == 65536
U32(n) == <<0, n>>
U32Max == <<Half - 1, Half - 1>>
Plus(a, b) == <<a[1] + b[1] + ((a[2] + b[2]) \div Half), (a[2] + b[2]) % Half>>
Overflows(x) == x[1] >= Half
Wrapped(x) == <<x[1] % Half, x[2]>>
TaskKeys == {U32(1), U32(2), U32Max}
TaskValues == {U32(1), U32Max}
Origins == {"signed", "none"}
Builds == [experimental : BOOLEAN, overflow_checks : BOOLEAN]
TaskStorage == [Numbers |-> Numbers, Total |-> Total]

\* add_number_into_total(i): Numbers::take(i).ok_or(NotFound)?, then
\* Total::mutate adds the key and the value.
add_number_into_total(st, i, overflow_checks) ==
    IF ~(i \in DOMAIN st.Numbers) THEN [res |-> "NotFound", st |-> st]
    ELSE LET v == st.Numbers[i]
             total_keys == Plus(st.Total[1], i)
             total_values == Plus(st.Total[2], v)
         IN  IF overflow_checks /\ (Overflows(total_keys) \/ Overflows(total_values))
             THEN [res |-> "panic", st |-> st]
             ELSE [res |-> Ok, taken |-> v,
                   st |-> [Numbers |-> StorageRemove(st.Numbers, i),
                           Total |-> <<Wrapped(total_keys), Wrapped(total_values)>>]]

\* store_number(origin, key, value)
store_number(st, origin, key, value) ==
    IF origin # "signed" THEN [res |-> "BadOrigin", st |-> st]
    ELSE [res |-> Ok, st |-> [st EXCEPT !.Numbers = StorageInsert(@, key, value)]]

InitTasks ==
    /\ Numbers = <<>>
    /\ Total = <<U32(0), U32(0)>>
    /\ pool = {}
    /\ block = 0
    /\ build \in Builds
    /\ call = [op |-> "none"]
    /\ processed = <<U32(0), U32(0)>>
    /\ stores = 0
    /\ IdentityIdle
    /\ MmrIdle
    /\ LeafIdle
    /\ WritersIdle
    /\ Ledger = <<>>
    /\ Bonded = <<>>
    /\ Payee = <<>>
    /\ VirtualStakers = {}
    /\ lock = [a \in Accounts |-> 0]
    /\ handle = None
    /\ last = "init"
    /\ result = Ok

\* What a run of the task writes: the pallet's storage and the true sums.
RunTask(ran, i) ==
    /\ Numbers' = ran.st.Numbers
    /\ Total' = ran.st.Total
    /\ processed' = IF ran.res = Ok
                    THEN <<Plus(processed[1], i), Plus(processed[2], ran.taken)>>
                    ELSE processed

StoreNumber(origin, key, value) ==
    /\ stores < MaxStores
    /\ LET stored == store_number(TaskStorage, origin, key, value)
       IN  /\ Numbers' = stored.st.Numbers
           /\ Total' = stored.st.Total
           /\ call' = [op |-> "store_number", res |-> stored.res]
    /\ stores' = stores + 1
    /\ UNCHANGED <<pool, block, build, processed>>
    /\ UNCHANGED nonTasksVars

\* get_totals(origin): reads Total and logs it.
GetTotals(origin) ==
    /\ call' = [op |-> "get_totals",
                res |-> IF origin = "signed" THEN Ok ELSE "BadOrigin"]
    /\ UNCHANGED <<Numbers, Total, pool, block, build, processed, stores>>
    /\ UNCHANGED nonTasksVars

\* The task called directly, as the tests call it.
AddNumberIntoTotal(i) ==
    /\ LET ran == add_number_into_total(TaskStorage, i, build.overflow_checks)
       IN  /\ RunTask(ran, i)
           /\ call' = [op |-> "add_number_into_total", i |-> i, res |-> ran.res]
    /\ UNCHANGED <<pool, block, build, stores>>
    /\ UNCHANGED nonTasksVars

\* Hooks::offchain_worker: with the experimental feature, one do_task
\* transaction for the first key Numbers::iter_keys() gives (the keys come
\* in the order of their hashes) is submitted, which the pool may refuse;
\* without the feature the hook is empty.
OffchainWorker(next, submitOk) ==
    /\ next \in (IF DOMAIN Numbers = {} THEN {None}
                 ELSE {Some(key) : key \in DOMAIN Numbers})
    /\ pool' = IF build.experimental /\ IsSome(next) /\ submitOk
               THEN pool \cup {Unwrap(next)} ELSE pool
    /\ call' = [op |-> "offchain_worker",
                res |-> IF ~build.experimental \/ next = None THEN "nothing"
                        ELSE IF submitOk THEN "submitted" ELSE "refused"]
    /\ UNCHANGED <<Numbers, Total, block, build, processed, stores>>
    /\ UNCHANGED nonTasksVars

\* A submitted do_task transaction is included in a block: the task runs
\* when its condition Numbers::contains_key(i) holds.
DoTask(i) ==
    /\ i \in pool
    /\ pool' = pool \ {i}
    /\ IF i \in DOMAIN Numbers
       THEN LET ran == add_number_into_total(TaskStorage, i, build.overflow_checks)
            IN  /\ RunTask(ran, i)
                /\ call' = [op |-> "do_task", i |-> i, res |-> ran.res]
       ELSE /\ UNCHANGED <<Numbers, Total, processed>>
            /\ call' = [op |-> "do_task", i |-> i, res |-> "InvalidTask"]
    /\ UNCHANGED <<block, build, stores>>
    /\ UNCHANGED nonTasksVars

\* run_to_block, one turn of its loop: System's hooks and the next block
\* number; no hook of the pallet runs on chain and no transaction is applied.
RunToBlock ==
    /\ block < MaxBlock
    /\ block' = block + 1
    /\ call' = [op |-> "run_to_block"]
    /\ UNCHANGED <<Numbers, Total, pool, build, processed, stores>>
    /\ UNCHANGED nonTasksVars

NextTasks ==
    \/ \E origin \in Origins, key \in TaskKeys, value \in TaskValues :
          StoreNumber(origin, key, value)
    \/ \E origin \in Origins : GetTotals(origin)
    \/ \E i \in TaskKeys : AddNumberIntoTotal(i)
    \/ \E next \in {None} \cup {Some(key) : key \in TaskKeys}, submitOk \in BOOLEAN :
          OffchainWorker(next, submitOk)
    \/ \E i \in TaskKeys : DoTask(i)
    \/ RunToBlock

SpecTasks == InitTasks /\ [][NextTasks]_vars

\* The node at work: the offchain worker runs after every block, submitted
\* transactions are included, and the blocks advance.
SpecTasksFair ==
    /\ SpecTasks
    /\ WF_vars(\E next \in {None} \cup {Some(key) : key \in TaskKeys},
                  submitOk \in BOOLEAN : OffchainWorker(next, submitOk))
    /\ WF_vars(\E i \in TaskKeys : DoTask(i))
    /\ WF_vars(RunToBlock)

\* ------------------------------------------------- identity pallet
\* A call is dispatched in a storage transaction: one that returns an error
\* leaves the storage as it was.
MaxRegistrars == 2
BasicDeposit == 1
ByteDeposit == 1
IdOwners == {"alice"}
RegistrarAccounts == {"bob"}
Infos == {"i1", "i2"}
Fees == {0, 1}
CallOrigins == {"root", "signed"}
encoded_size(info) == IF info = "i1" THEN 1 ELSE 2
hash_of(info) == [hash_of |-> info]

\* Judgement: FeePaid(fee) is a request awaiting a registrar, the fee
\* reserved; Reasonable and Erroneous stand for what a registrar gives.
FeePaid(fee) == [kind |-> "FeePaid", fee |-> fee]
Judged(kind) == [kind |-> kind]
GivenJudgements == {Judged("Reasonable"), Judged("Erroneous"), FeePaid(1)}
has_deposit(j) == j.kind = "FeePaid"
is_sticky(j) == j.kind \in {"FeePaid", "Erroneous"}

RECURSIVE SumFees(_)
SumFees(judgements) ==
    IF judgements = <<>> THEN 0
    ELSE (IF has_deposit(judgements[1][2]) THEN judgements[1][2].fee ELSE 0)
            + SumFees(Tail(judgements))
total_deposit(id) == id.deposit + SumFees(id.judgements)

IdStorage ==
    [IdentityOf |-> IdentityOf, Registrars |-> Registrars, SubsOf |-> SubsOf,
     SuperOf |-> SuperOf, reserved |-> reserved]

\* Currency::reserve fails when the free balance is short, which the pallet
\* does not decide; unreserve and slash_reserved take what is there.
reserve(st, who, amount, reserveOk) ==
    IF amount > 0 /\ ~reserveOk THEN [res |-> "InsufficientBalance", st |-> st]
    ELSE [res |-> Ok, st |-> [st EXCEPT !.reserved[who] = @ + amount]]
unreserve(st, who, amount) ==
    [st EXCEPT !.reserved[who] = IF @ > amount THEN @ - amount ELSE 0]

rejig_deposit(st, who, current, new_deposit, reserveOk) ==
    IF new_deposit > current THEN reserve(st, who, new_deposit - current, reserveOk)
    ELSE IF new_deposit < current
    THEN [res |-> Ok, st |-> unreserve(st, who, current - new_deposit)]
    ELSE [res |-> Ok, st |-> st]

calculate_identity_deposit(info) == BasicDeposit + ByteDeposit * encoded_size(info)

\* binary_search_by_key(&reg_index, |x| x.0) on the judgements, which are
\* kept sorted by registrar index: the position found, or the one to insert at.
binary_search(judgements, reg_index) ==
    IF \E i \in DOMAIN judgements : judgements[i][1] = reg_index
    THEN [found |-> TRUE,
          pos |-> CHOOSE i \in DOMAIN judgements : judgements[i][1] = reg_index]
    ELSE [found |-> FALSE,
          pos |-> 1 + Cardinality({i \in DOMAIN judgements : judgements[i][1] < reg_index})]
InsertAt(seq, pos, x) == SubSeq(seq, 1, pos - 1) \o <<x>> \o SubSeq(seq, pos, Len(seq))
RemoveAt(seq, pos) == SubSeq(seq, 1, pos - 1) \o SubSeq(seq, pos + 1, Len(seq))
Retain(seq, Keep(_)) ==
    LET RECURSIVE go(_)
        go(rest) == IF rest = <<>> THEN <<>>
                    ELSE (IF Keep(rest[1]) THEN <<rest[1]>> ELSE <<>>) \o go(Tail(rest))
    IN  go(seq)
\* registrars.get(reg_index).and_then(Option::as_ref)
registrar_at(st, reg_index) ==
    IF reg_index + 1 \in DOMAIN st.Registrars THEN st.Registrars[reg_index + 1] ELSE None

add_registrar(st, origin, account) ==
    IF origin # "root" THEN [res |-> "BadOrigin", st |-> st]
    ELSE IF Len(st.Registrars) >= MaxRegistrars
    THEN [res |-> "TooManyRegistrars", st |-> st]
    ELSE [res |-> Ok,
          st |-> [st EXCEPT !.Registrars = Append(@, Some([account |-> account, fee |-> 0]))]]

set_fee(st, who, index, fee) ==
    LET r == registrar_at(st, index)
    IN  IF IsSome(r) /\ Unwrap(r).account = who
        THEN [res |-> Ok,
              st |-> [st EXCEPT !.Registrars[index + 1] = Some([Unwrap(r) EXCEPT !.fee = fee])]]
        ELSE [res |-> "InvalidIndex", st |-> st]

\* Mutant: set_identity keeps no judgement.
set_identity_DropsJudgements(st, sender, info, reserveOk) ==
    LET id == [info |-> info, judgements |-> <<>>,
               deposit |-> IF sender \in DOMAIN st.IdentityOf
                           THEN st.IdentityOf[sender].deposit ELSE 0]
        new_deposit == calculate_identity_deposit(id.info)
        paid == rejig_deposit(st, sender, id.deposit, new_deposit, reserveOk)
    IN  IF paid.res # Ok THEN [res |-> paid.res, st |-> st]
        ELSE [res |-> Ok,
              st |-> [paid.st EXCEPT !.IdentityOf =
                         StorageInsert(@, sender, [id EXCEPT !.deposit = new_deposit])]]

set_identity(st, sender, info, reserveOk) ==
    LET sticky(j) == is_sticky(j[2])
        id == IF sender \in DOMAIN st.IdentityOf
              THEN [info |-> info,
                    judgements |-> Retain(st.IdentityOf[sender].judgements, sticky),
                    deposit |-> st.IdentityOf[sender].deposit]
              ELSE [info |-> info, judgements |-> <<>>, deposit |-> 0]
        new_deposit == calculate_identity_deposit(id.info)
        paid == rejig_deposit(st, sender, id.deposit, new_deposit, reserveOk)
    IN  IF paid.res # Ok THEN [res |-> paid.res, st |-> st]
        ELSE [res |-> Ok,
              st |-> [paid.st EXCEPT !.IdentityOf =
                         StorageInsert(@, sender, [id EXCEPT !.deposit = new_deposit])]]

request_judgement(st, sender, reg_index, max_fee, reserveOk) ==
    LET r == registrar_at(st, reg_index)
    IN  IF ~IsSome(r) THEN [res |-> "EmptyIndex", st |-> st]
        ELSE IF max_fee < Unwrap(r).fee THEN [res |-> "FeeChanged", st |-> st]
        ELSE IF ~(sender \in DOMAIN st.IdentityOf) THEN [res |-> "NoIdentity", st |-> st]
        ELSE LET id == st.IdentityOf[sender]
                 entry == <<reg_index, FeePaid(Unwrap(r).fee)>>
                 at == binary_search(id.judgements, reg_index)
             IN  IF at.found /\ is_sticky(id.judgements[at.pos][2])
                 THEN [res |-> "StickyJudgement", st |-> st]
                 ELSE IF ~at.found /\ Len(id.judgements) >= MaxRegistrars
                 THEN [res |-> "TooManyRegistrars", st |-> st]
                 ELSE LET judgements == IF at.found
                                        THEN [id.judgements EXCEPT ![at.pos] = entry]
                                        ELSE InsertAt(id.judgements, at.pos, entry)
                          paid == reserve(st, sender, Unwrap(r).fee, reserveOk)
                      IN  IF paid.res # Ok THEN [res |-> paid.res, st |-> st]
                          ELSE [res |-> Ok,
                                st |-> [paid.st EXCEPT !.IdentityOf[sender].judgements =
                                                          judgements]]

cancel_request(st, sender, reg_index) ==
    IF ~(sender \in DOMAIN st.IdentityOf) THEN [res |-> "NoIdentity", st |-> st]
    ELSE LET id == st.IdentityOf[sender]
             at == binary_search(id.judgements, reg_index)
         IN  IF ~at.found THEN [res |-> "NotFound", st |-> st]
             ELSE IF id.judgements[at.pos][2].kind # "FeePaid"
             THEN [res |-> "JudgementGiven", st |-> st]
             ELSE [res |-> Ok,
                   st |-> [unreserve(st, sender, id.judgements[at.pos][2].fee)
                              EXCEPT !.IdentityOf[sender].judgements =
                                        RemoveAt(id.judgements, at.pos)]]

provide_judgement(st, sender, reg_index, target, judgement, identity, repatriateOk) ==
    LET r == registrar_at(st, reg_index)
    IN  IF has_deposit(judgement) THEN [res |-> "InvalidJudgement", st |-> st]
        ELSE IF ~(IsSome(r) /\ Unwrap(r).account = sender)
        THEN [res |-> "InvalidIndex", st |-> st]
        ELSE IF ~(target \in DOMAIN st.IdentityOf) THEN [res |-> "InvalidTarget", st |-> st]
        ELSE LET id == st.IdentityOf[target]
                 entry == <<reg_index, judgement>>
                 at == binary_search(id.judgements, reg_index)
             IN  IF hash_of(id.info) # identity
                 THEN [res |-> "JudgementForDifferentIdentity", st |-> st]
                 ELSE IF at.found
                 THEN IF has_deposit(id.judgements[at.pos][2]) /\ ~repatriateOk
                      THEN [res |-> "JudgementPaymentFailed", st |-> st]
                      ELSE [res |-> Ok,
                            st |-> [(IF has_deposit(id.judgements[at.pos][2])
                                     THEN unreserve(st, target, id.judgements[at.pos][2].fee)
                                     ELSE st)
                                       EXCEPT !.IdentityOf[target].judgements[at.pos] = entry]]
                 ELSE IF Len(id.judgements) >= MaxRegistrars
                 THEN [res |-> "TooManyRegistrars", st |-> st]
                 ELSE [res |-> Ok,
                       st |-> [st EXCEPT !.IdentityOf[target].judgements =
                                            InsertAt(id.judgements, at.pos, entry)]]

\* SubsOf is a ValueQuery map: take gives (0, no subs) for an account without.
subs_of(st, who) ==
    IF who \in DOMAIN st.SubsOf THEN st.SubsOf[who] ELSE [deposit |-> 0, subs |-> <<>>]
\* SubsOf::take, IdentityOf::take, SuperOf::remove of every sub: what
\* clear_identity and kill_identity remove.
take_identity(st, who) ==
    LET sub_ids == {subs_of(st, who).subs[i] : i \in DOMAIN subs_of(st, who).subs}
    IN  [st EXCEPT !.SubsOf = StorageRemove(@, who),
                   !.IdentityOf = StorageRemove(@, who),
                   !.SuperOf = [s \in (DOMAIN st.SuperOf) \ sub_ids |-> st.SuperOf[s]]]

clear_identity(st, sender) ==
    IF ~(sender \in DOMAIN st.IdentityOf) THEN [res |-> "NoIdentity", st |-> st]
    ELSE LET deposit == total_deposit(st.IdentityOf[sender]) + subs_of(st, sender).deposit
         IN  [res |-> Ok, st |-> unreserve(take_identity(st, sender), sender, deposit)]

kill_identity(st, origin, target) ==
    IF origin # "root" THEN [res |-> "BadOrigin", st |-> st]
    ELSE IF ~(target \in DOMAIN st.IdentityOf) THEN [res |-> "NoIdentity", st |-> st]
    ELSE LET deposit == total_deposit(st.IdentityOf[target]) + subs_of(st, target).deposit
         IN  [res |-> Ok, st |-> unreserve(take_identity(st, target), target, deposit)]

\* What a dispatched call leaves: the storage it wrote and what it returned.
Dispatch(op, out) ==
    /\ IdentityOf' = out.st.IdentityOf
    /\ Registrars' = out.st.Registrars
    /\ SubsOf' = out.st.SubsOf
    /\ SuperOf' = out.st.SuperOf
    /\ reserved' = out.st.reserved
    /\ dispatched' = [op |-> op, res |-> out.res]

InitIdentity ==
    /\ IdentityIdle
    /\ TasksIdle
    /\ MmrIdle
    /\ LeafIdle
    /\ WritersIdle
    /\ Ledger = <<>>
    /\ Bonded = <<>>
    /\ Payee = <<>>
    /\ VirtualStakers = {}
    /\ lock = [a \in Accounts |-> 0]
    /\ handle = None
    /\ last = "init"
    /\ result = Ok

AddRegistrar(origin, account) ==
    /\ Dispatch("add_registrar", add_registrar(IdStorage, origin, account))
    /\ UNCHANGED <<usernameVars, now>>
    /\ UNCHANGED nonIdentityVars
SetFee(who, index, fee) ==
    /\ Dispatch("set_fee", set_fee(IdStorage, who, index, fee))
    /\ UNCHANGED <<usernameVars, now>>
    /\ UNCHANGED nonIdentityVars
SetIdentity(sender, info, reserveOk) ==
    /\ Dispatch("set_identity", set_identity(IdStorage, sender, info, reserveOk))
    /\ UNCHANGED <<usernameVars, now>>
    /\ UNCHANGED nonIdentityVars
RequestJudgement(sender, reg_index, max_fee, reserveOk) ==
    /\ Dispatch("request_judgement",
                request_judgement(IdStorage, sender, reg_index, max_fee, reserveOk))
    /\ UNCHANGED <<usernameVars, now>>
    /\ UNCHANGED nonIdentityVars
CancelRequest(sender, reg_index) ==
    /\ Dispatch("cancel_request", cancel_request(IdStorage, sender, reg_index))
    /\ UNCHANGED <<usernameVars, now>>
    /\ UNCHANGED nonIdentityVars
ProvideJudgement(sender, reg_index, target, judgement, identity, repatriateOk) ==
    /\ Dispatch("provide_judgement",
                provide_judgement(IdStorage, sender, reg_index, target, judgement, identity,
                                  repatriateOk))
    /\ UNCHANGED <<usernameVars, now>>
    /\ UNCHANGED nonIdentityVars
ClearIdentity(sender) ==
    /\ Dispatch("clear_identity", clear_identity(IdStorage, sender))
    /\ UNCHANGED <<usernameVars, now>>
    /\ UNCHANGED nonIdentityVars
KillIdentity(origin, target) ==
    /\ Dispatch("kill_identity", kill_identity(IdStorage, origin, target))
    /\ UNCHANGED <<usernameVars, now>>
    /\ UNCHANGED nonIdentityVars

RegistrarIndices == 0..(MaxRegistrars - 1)
NextIdentity ==
    \/ \E origin \in CallOrigins, account \in RegistrarAccounts : AddRegistrar(origin, account)
    \/ \E who \in Accounts, index \in RegistrarIndices, fee \in Fees : SetFee(who, index, fee)
    \/ \E sender \in IdOwners, info \in Infos, reserveOk \in BOOLEAN :
          SetIdentity(sender, info, reserveOk)
    \/ \E sender \in IdOwners, reg_index \in RegistrarIndices, max_fee \in Fees,
          reserveOk \in BOOLEAN : RequestJudgement(sender, reg_index, max_fee, reserveOk)
    \/ \E sender \in IdOwners, reg_index \in RegistrarIndices : CancelRequest(sender, reg_index)
    \/ \E sender \in Accounts, reg_index \in RegistrarIndices, target \in IdOwners,
          judgement \in GivenJudgements, info \in Infos, repatriateOk \in BOOLEAN :
          ProvideJudgement(sender, reg_index, target, judgement, hash_of(info), repatriateOk)
    \/ \E sender \in IdOwners : ClearIdentity(sender)
    \/ \E origin \in CallOrigins, target \in IdOwners : KillIdentity(origin, target)

SpecIdentity == InitIdentity /\ [][NextIdentity]_vars

\* ------------------------------------------------- identity pallet: sub-accounts
\* SubsOf[m] = [deposit, subs]; SuperOf[s] = <<m, name>>.
SubAccountDeposit == 1
MaxSubAccounts == 2
SubNames == {"n1", "n2"}
\* The lists set_subs is called with: every list of accounts, repeats
\* included, each under the first name.
SubEntries == Accounts \X {"n1"}
SubLists == UNION {[1..n -> SubEntries] : n \in 0..MaxSubAccounts}

subs_deposit(subs) == SubAccountDeposit * subs

\* for (id, name) in subs { SuperOf::insert(&id, (sender, name)) }: a later
\* item of one account overwrites an earlier one.
RECURSIVE insert_supers(_, _, _)
insert_supers(supers, sender, subs) ==
    IF subs = <<>> THEN supers
    ELSE insert_supers(StorageInsert(supers, subs[1][1], <<sender, subs[1][2]>>),
                       sender, Tail(subs))

set_subs(st, sender, subs, reserveOk) ==
    IF ~(sender \in DOMAIN st.IdentityOf) THEN [res |-> "NotFound", st |-> st]
    ELSE IF Len(subs) > MaxSubAccounts THEN [res |-> "TooManySubAccounts", st |-> st]
    ELSE LET old == subs_of(st, sender)
             new_deposit == subs_deposit(Len(subs))
             not_other_sub ==
                 \A i \in DOMAIN subs :
                     subs[i][1] \in DOMAIN st.SuperOf => st.SuperOf[subs[i][1]][1] = sender
             paid == rejig_deposit(st, sender, old.deposit, new_deposit, reserveOk)
             old_ids == {old.subs[i] : i \in DOMAIN old.subs}
             ids == [i \in DOMAIN subs |-> subs[i][1]]
         IN  IF ~not_other_sub THEN [res |-> "AlreadyClaimed", st |-> st]
             ELSE IF paid.res # Ok THEN [res |-> paid.res, st |-> st]
             ELSE [res |-> Ok,
                   st |-> [paid.st EXCEPT
                             !.SuperOf =
                                 insert_supers([s \in (DOMAIN @) \ old_ids |-> @[s]],
                                               sender, subs),
                             !.SubsOf =
                                 IF ids = <<>> THEN StorageRemove(@, sender)
                                 ELSE StorageInsert(@, sender,
                                                    [deposit |-> new_deposit,
                                                     subs |-> ids])]]

add_sub(st, sender, sub, data, reserveOk) ==
    IF ~(sender \in DOMAIN st.IdentityOf) THEN [res |-> "NoIdentity", st |-> st]
    ELSE IF sub \in DOMAIN st.SuperOf THEN [res |-> "AlreadyClaimed", st |-> st]
    ELSE LET cur == subs_of(st, sender)
             paid == reserve(st, sender, SubAccountDeposit, reserveOk)
         IN  IF Len(cur.subs) >= MaxSubAccounts
             THEN [res |-> "TooManySubAccounts", st |-> st]
             ELSE IF paid.res # Ok THEN [res |-> paid.res, st |-> st]
             ELSE [res |-> Ok,
                   st |-> [paid.st EXCEPT
                             !.SuperOf = StorageInsert(@, sub, <<sender, data>>),
                             !.SubsOf =
                                 StorageInsert(@, sender,
                                               [deposit |-> cur.deposit + SubAccountDeposit,
                                                subs |-> Append(cur.subs, sub)])]]

rename_sub(st, sender, sub, data) ==
    IF ~(sender \in DOMAIN st.IdentityOf) THEN [res |-> "NoIdentity", st |-> st]
    ELSE IF ~(sub \in DOMAIN st.SuperOf /\ st.SuperOf[sub][1] = sender)
    THEN [res |-> "NotOwned", st |-> st]
    ELSE [res |-> Ok, st |-> [st EXCEPT !.SuperOf = StorageInsert(@, sub, <<sender, data>>)]]

\* SubsOf::mutate(sup, ..): the sub leaves the list and one SubAccountDeposit,
\* or what is left of the deposit, leaves the deposit recorded.
forget_sub(st, sup, sub) ==
    LET cur == subs_of(st, sup)
        stays(x) == x # sub
        deposit == IF SubAccountDeposit < cur.deposit THEN SubAccountDeposit
                   ELSE cur.deposit
    IN  [deposit |-> deposit,
         st |-> [st EXCEPT !.SubsOf =
                    StorageInsert(@, sup, [deposit |-> cur.deposit - deposit,
                                           subs |-> Retain(cur.subs, stays)])]]

\* Mutant: remove_sub leaves the account in the list of its super.
remove_sub_KeepsListed(st, sender, sub) ==
    IF ~(sender \in DOMAIN st.IdentityOf) THEN [res |-> "NoIdentity", st |-> st]
    ELSE IF ~(sub \in DOMAIN st.SuperOf) THEN [res |-> "NotSub", st |-> st]
    ELSE IF st.SuperOf[sub][1] # sender THEN [res |-> "NotOwned", st |-> st]
    ELSE [res |-> Ok,
          st |-> unreserve([st EXCEPT !.SuperOf = StorageRemove(@, sub)], sender,
                           forget_sub(st, sender, sub).deposit)]

remove_sub(st, sender, sub) ==
    IF ~(sender \in DOMAIN st.IdentityOf) THEN [res |-> "NoIdentity", st |-> st]
    ELSE IF ~(sub \in DOMAIN st.SuperOf) THEN [res |-> "NotSub", st |-> st]
    ELSE IF st.SuperOf[sub][1] # sender THEN [res |-> "NotOwned", st |-> st]
    ELSE LET left == forget_sub([st EXCEPT !.SuperOf = StorageRemove(@, sub)], sender, sub)
         IN  [res |-> Ok, st |-> unreserve(left.st, sender, left.deposit)]

\* let _ = repatriate_reserved(sup, sender, deposit, Free): the result is
\* dropped; a transfer the currency refuses leaves the reserve of sup as it is.
quit_sub(st, sender, repatriateOk) ==
    IF ~(sender \in DOMAIN st.SuperOf) THEN [res |-> "NotSub", st |-> st]
    ELSE LET sup == st.SuperOf[sender][1]
             left == forget_sub([st EXCEPT !.SuperOf = StorageRemove(@, sender)], sup, sender)
         IN  [res |-> Ok,
              st |-> IF repatriateOk THEN unreserve(left.st, sup, left.deposit) ELSE left.st]

SetSubs(sender, subs, reserveOk) ==
    /\ Dispatch("set_subs", set_subs(IdStorage, sender, subs, reserveOk))
    /\ UNCHANGED <<usernameVars, now>>
    /\ UNCHANGED nonIdentityVars
AddSub(sender, sub, data, reserveOk) ==
    /\ Dispatch("add_sub", add_sub(IdStorage, sender, sub, data, reserveOk))
    /\ UNCHANGED <<usernameVars, now>>
    /\ UNCHANGED nonIdentityVars
RenameSub(sender, sub, data) ==
    /\ Dispatch("rename_sub", rename_sub(IdStorage, sender, sub, data))
    /\ UNCHANGED <<usernameVars, now>>
    /\ UNCHANGED nonIdentityVars
RemoveSub(sender, sub) ==
    /\ Dispatch("remove_sub", remove_sub(IdStorage, sender, sub))
    /\ UNCHANGED <<usernameVars, now>>
    /\ UNCHANGED nonIdentityVars
\* A refused transfer is followed only while the reserve of the super holds
\* no more than its identity and its subs account for.
QuitSub(sender, repatriateOk) ==
    /\ (~repatriateOk /\ sender \in DOMAIN SuperOf) =>
           LET sup == SuperOf[sender][1]
           IN  reserved[sup] <= subs_of(IdStorage, sup).deposit
                                  + (IF sup \in DOMAIN IdentityOf
                                     THEN total_deposit(IdentityOf[sup]) ELSE 0)
    /\ Dispatch("quit_sub", quit_sub(IdStorage, sender, repatriateOk))
    /\ UNCHANGED <<usernameVars, now>>
    /\ UNCHANGED nonIdentityVars

NextSubs ==
    \/ \E sender \in Accounts, reserveOk \in BOOLEAN : SetIdentity(sender, "i1", reserveOk)
    \/ \E sender \in Accounts, subs \in SubLists, reserveOk \in BOOLEAN :
          SetSubs(sender, subs, reserveOk)
    \/ \E sender \in Accounts, sub \in Accounts, data \in SubNames, reserveOk \in BOOLEAN :
          AddSub(sender, sub, data, reserveOk)
    \/ \E sender \in Accounts, sub \in Accounts, data \in SubNames :
          RenameSub(sender, sub, data)
    \/ \E sender \in Accounts, sub \in Accounts : RemoveSub(sender, sub)
    \/ \E sender \in Accounts, repatriateOk \in BOOLEAN : QuitSub(sender, repatriateOk)
    \/ \E sender \in Accounts : ClearIdentity(sender)
    \/ \E target \in Accounts : KillIdentity("root", target)

SpecSubs == InitIdentity /\ [][NextSubs]_vars

\* ------------------------------------------------- identity pallet: usernames
MaxNow == 3
MaxReserved == 1
PendingUsernameExpiration == 1
UsernameGracePeriod == 1
UsernameDeposit == 1
MaxUsernameLength == 3
\* A username is its bytes: name, separator, suffix. The last two are
\* malformed: no separator, and longer than MaxUsernameLength.
Usernames == {<<"a", ".", "d">>, <<"b", ".", "d">>, <<"a", "b">>, <<"a", "b", ".", "d">>}
Suffixes == {<<"d">>}
Allocations == {0, 1}
Signatures == {None, Some(TRUE), Some(FALSE)}
is_lower_alnum(byte) == byte \in {"a", "b", "d"}

new_with_allocation == [kind |-> "Allocation"]
new_with_deposit(deposit) == [kind |-> "AuthorityDeposit", deposit |-> deposit]

\* username.iter().rposition(|c| *c == b'.')
rposition(username) ==
    IF \E i \in DOMAIN username : username[i] = "."
    THEN Some(CHOOSE i \in DOMAIN username :
                 /\ username[i] = "."
                 /\ \A k \in DOMAIN username : username[k] = "." => k <= i)
    ELSE None

\* The suffix of a well-formed username, or InvalidUsername. Positions here
\* count from 1, the code's from 0.
validate_username(username) ==
    LET at == rposition(username)
    IN  IF Len(username) > MaxUsernameLength \/ username = <<>> \/ ~IsSome(at)
        THEN [res |-> "InvalidUsername"]
        ELSE IF ~(Unwrap(at) > 1) \/ ~(Unwrap(at) + 1 <= Len(username))
        THEN [res |-> "InvalidUsername"]
        ELSE IF ~(\A i \in 1..(Unwrap(at) - 1) : is_lower_alnum(username[i]))
        THEN [res |-> "InvalidUsername"]
        ELSE [res |-> Ok, suffix |-> SubSeq(username, Unwrap(at) + 1, Len(username))]

suffix_of_username(username) ==
    LET at == rposition(username)
    IN  IF ~IsSome(at) THEN None
        ELSE IF Unwrap(at) + 1 > Len(username) THEN None
        ELSE Some(SubSeq(username, Unwrap(at) + 1, Len(username)))

validate_suffix(suffix) ==
    IF suffix = <<>> THEN "InvalidSuffix"
    ELSE IF ~(\A i \in DOMAIN suffix : is_lower_alnum(suffix[i])) THEN "InvalidSuffix"
    ELSE Ok

UnStorage ==
    [AuthorityOf |-> AuthorityOf, UsernameOf |-> UsernameOf,
     UsernameInfoOf |-> UsernameInfoOf, PendingUsernames |-> PendingUsernames,
     UnbindingUsernames |-> UnbindingUsernames, reserved |-> reserved, now |-> now]

insert_username(st, who, username, provider) ==
    LET new_is_primary == ~(who \in DOMAIN st.UsernameOf)
        primary == IF new_is_primary
                   THEN [st EXCEPT !.UsernameOf = StorageInsert(@, who, username)]
                   ELSE st
    IN  [primary EXCEPT !.UsernameInfoOf =
                           StorageInsert(@, username, [owner |-> who, provider |-> provider])]

\* now.saturating_add(PendingUsernameExpiration): block numbers here stay
\* far below the type's maximum.
queue_acceptance(st, who, username, provider) ==
    LET expiration == st.now + PendingUsernameExpiration
    IN  [st EXCEPT !.PendingUsernames = StorageInsert(@, username, <<who, expiration, provider>>)]

add_username_authority(st, origin, authority, suffix, allocation) ==
    IF origin # "root" THEN [res |-> "BadOrigin", st |-> st]
    ELSE IF validate_suffix(suffix) # Ok THEN [res |-> validate_suffix(suffix), st |-> st]
    ELSE [res |-> Ok,
          st |-> [st EXCEPT !.AuthorityOf =
                     StorageInsert(@, suffix, [account_id |-> authority,
                                               allocation |-> allocation])]]

remove_username_authority(st, origin, suffix, authority) ==
    IF origin # "root" THEN [res |-> "BadOrigin", st |-> st]
    ELSE IF ~(suffix \in DOMAIN st.AuthorityOf) THEN [res |-> "NotUsernameAuthority", st |-> st]
    ELSE IF st.AuthorityOf[suffix].account_id # authority THEN [res |-> "InvalidSuffix", st |-> st]
    ELSE [res |-> Ok, st |-> [st EXCEPT !.AuthorityOf = StorageRemove(@, suffix)]]

set_username_for(st, sender, who, username, signature, use_allocation, reserveOk) ==
    LET valid == validate_username(username)
    IN  IF valid.res # Ok THEN [res |-> valid.res, st |-> st]
        ELSE IF ~(valid.suffix \in DOMAIN st.AuthorityOf)
        THEN [res |-> "NotUsernameAuthority", st |-> st]
        ELSE IF st.AuthorityOf[valid.suffix].account_id # sender
        THEN [res |-> "NotUsernameAuthority", st |-> st]
        ELSE IF use_allocation /\ ~(st.AuthorityOf[valid.suffix].allocation > 0)
        THEN [res |-> "NoAllocation", st |-> st]
        ELSE LET paid == IF use_allocation
                         THEN [res |-> Ok,
                               st |-> [st EXCEPT !.AuthorityOf[valid.suffix].allocation = @ - 1]]
                         ELSE reserve(st, sender, UsernameDeposit, reserveOk)
                 provider == IF use_allocation THEN new_with_allocation
                             ELSE new_with_deposit(UsernameDeposit)
             IN  IF paid.res # Ok THEN [res |-> paid.res, st |-> st]
                 ELSE IF username \in DOMAIN st.UsernameInfoOf
                 THEN [res |-> "UsernameTaken", st |-> st]
                 ELSE IF username \in DOMAIN st.PendingUsernames
                 THEN [res |-> "UsernameTaken", st |-> st]
                 ELSE IF IsSome(signature)
                 THEN IF ~Unwrap(signature) THEN [res |-> "InvalidSignature", st |-> st]
                      ELSE [res |-> Ok, st |-> insert_username(paid.st, who, username, provider)]
                 ELSE [res |-> Ok, st |-> queue_acceptance(paid.st, who, username, provider)]

\* PendingUsernames::take gives (approved_for, _, provider): the deadline
\* stored with the entry is not read.
accept_username(st, who, username) ==
    IF ~(username \in DOMAIN st.PendingUsernames) THEN [res |-> "NoUsername", st |-> st]
    ELSE IF st.PendingUsernames[username][1] # who THEN [res |-> "InvalidUsername", st |-> st]
    ELSE [res |-> Ok,
          st |-> insert_username(
                     [st EXCEPT !.PendingUsernames = StorageRemove(@, username)],
                     who, username, st.PendingUsernames[username][3])]

remove_expired_approval(st, username) ==
    IF ~(username \in DOMAIN st.PendingUsernames) THEN [res |-> "NoUsername", st |-> st]
    ELSE LET expiration == st.PendingUsernames[username][2]
             provider == st.PendingUsernames[username][3]
             taken == [st EXCEPT !.PendingUsernames = StorageRemove(@, username)]
         IN  IF ~(st.now > expiration) THEN [res |-> "NotExpired", st |-> st]
             ELSE IF provider.kind = "AuthorityDeposit"
             THEN IF ~IsSome(suffix_of_username(username))
                  THEN [res |-> "InvalidUsername", st |-> st]
                  ELSE IF ~(Unwrap(suffix_of_username(username)) \in DOMAIN st.AuthorityOf)
                  THEN [res |-> "NotUsernameAuthority", st |-> st]
                  ELSE [res |-> Ok,
                        st |-> unreserve(taken,
                                         st.AuthorityOf[Unwrap(suffix_of_username(username))]
                                            .account_id,
                                         provider.deposit)]
             ELSE IF provider.kind = "Allocation" THEN [res |-> Ok, st |-> taken]
             ELSE [res |-> "InvalidTarget", st |-> st]

set_primary_username(st, who, username) ==
    IF ~(username \in DOMAIN st.UsernameInfoOf) THEN [res |-> "NoUsername", st |-> st]
    ELSE IF st.UsernameInfoOf[username].owner # who THEN [res |-> "InvalidUsername", st |-> st]
    ELSE [res |-> Ok, st |-> [st EXCEPT !.UsernameOf = StorageInsert(@, who, username)]]

\* Mutant: unbind_username starts no grace period, the expiry is the current block.
unbind_username_NoGrace(st, who, username) ==
    IF ~(username \in DOMAIN st.UsernameInfoOf) THEN [res |-> "NoUsername", st |-> st]
    ELSE IF ~IsSome(suffix_of_username(username)) THEN [res |-> "InvalidUsername", st |-> st]
    ELSE IF ~(Unwrap(suffix_of_username(username)) \in DOMAIN st.AuthorityOf)
    THEN [res |-> "NotUsernameAuthority", st |-> st]
    ELSE IF st.AuthorityOf[Unwrap(suffix_of_username(username))].account_id # who
    THEN [res |-> "NotUsernameAuthority", st |-> st]
    ELSE IF st.UsernameInfoOf[username].provider.kind = "System"
    THEN [res |-> "InsufficientPrivileges", st |-> st]
    ELSE IF username \in DOMAIN st.UnbindingUsernames
    THEN [res |-> "AlreadyUnbinding", st |-> st]
    ELSE [res |-> Ok,
          st |-> [st EXCEPT !.UnbindingUsernames = StorageInsert(@, username, st.now)]]

\* now.saturating_add(UsernameGracePeriod): block numbers here stay far
\* below the type's maximum.
unbind_username(st, who, username) ==
    IF ~(username \in DOMAIN st.UsernameInfoOf) THEN [res |-> "NoUsername", st |-> st]
    ELSE IF ~IsSome(suffix_of_username(username)) THEN [res |-> "InvalidUsername", st |-> st]
    ELSE IF ~(Unwrap(suffix_of_username(username)) \in DOMAIN st.AuthorityOf)
    THEN [res |-> "NotUsernameAuthority", st |-> st]
    ELSE IF st.AuthorityOf[Unwrap(suffix_of_username(username))].account_id # who
    THEN [res |-> "NotUsernameAuthority", st |-> st]
    ELSE IF st.UsernameInfoOf[username].provider.kind = "System"
    THEN [res |-> "InsufficientPrivileges", st |-> st]
    ELSE IF username \in DOMAIN st.UnbindingUsernames
    THEN [res |-> "AlreadyUnbinding", st |-> st]
    ELSE [res |-> Ok,
          st |-> [st EXCEPT !.UnbindingUsernames =
                     StorageInsert(@, username, st.now + UsernameGracePeriod)]]

\* UsernameInfoOf::take and the UsernameOf::mutate that drops the owner's
\* primary mapping when it is this username.
take_username(st, username) ==
    LET owner == st.UsernameInfoOf[username].owner
    IN  [st EXCEPT !.UsernameInfoOf = StorageRemove(@, username),
                   !.UsernameOf = IF owner \in DOMAIN @ /\ @[owner] = username
                                  THEN StorageRemove(@, owner) ELSE @]
\* The deposit goes back to the suffix's authority if there still is one.
release_deposit(st, username, deposit) ==
    LET suffix == Unwrap(suffix_of_username(username))
    IN  IF suffix \in DOMAIN st.AuthorityOf
        THEN unreserve(st, st.AuthorityOf[suffix].account_id, deposit)
        ELSE st

\* Mutant: remove_username keeps the owner's primary mapping.
remove_username_KeepsPrimary(st, username) ==
    IF ~(username \in DOMAIN st.UnbindingUsernames) THEN [res |-> "NotUnbinding", st |-> st]
    ELSE IF ~(st.now >= st.UnbindingUsernames[username]) THEN [res |-> "TooEarly", st |-> st]
    ELSE IF ~(username \in DOMAIN st.UsernameInfoOf) THEN [res |-> "NoUsername", st |-> st]
    ELSE [res |-> Ok,
          st |-> [st EXCEPT !.UnbindingUsernames = StorageRemove(@, username),
                            !.UsernameInfoOf = StorageRemove(@, username)]]

remove_username(st, username) ==
    IF ~(username \in DOMAIN st.UnbindingUsernames) THEN [res |-> "NotUnbinding", st |-> st]
    ELSE IF ~(st.now >= st.UnbindingUsernames[username]) THEN [res |-> "TooEarly", st |-> st]
    ELSE IF ~(username \in DOMAIN st.UsernameInfoOf) THEN [res |-> "NoUsername", st |-> st]
    ELSE LET provider == st.UsernameInfoOf[username].provider
             taken == take_username(
                          [st EXCEPT !.UnbindingUsernames = StorageRemove(@, username)], username)
         IN  IF provider.kind = "AuthorityDeposit"
             THEN IF ~IsSome(suffix_of_username(username))
                  THEN [res |-> "InvalidUsername", st |-> st]
                  ELSE [res |-> Ok, st |-> release_deposit(taken, username, provider.deposit)]
             ELSE IF provider.kind = "Allocation" THEN [res |-> Ok, st |-> taken]
             ELSE [res |-> "InsufficientPrivileges", st |-> st]

\* slash_reserved takes the deposit from the authority's reserved balance.
kill_username(st, origin, username) ==
    IF origin # "root" THEN [res |-> "BadOrigin", st |-> st]
    ELSE IF ~(username \in DOMAIN st.UsernameInfoOf) THEN [res |-> "NoUsername", st |-> st]
    ELSE LET provider == st.UsernameInfoOf[username].provider
             taken == [take_username(st, username)
                          EXCEPT !.UnbindingUsernames = StorageRemove(@, username)]
         IN  IF provider.kind = "AuthorityDeposit"
             THEN IF ~IsSome(suffix_of_username(username))
                  THEN [res |-> "InvalidUsername", st |-> st]
                  ELSE [res |-> Ok, st |-> release_deposit(taken, username, provider.deposit)]
             ELSE [res |-> Ok, st |-> taken]

\* What a dispatched username call leaves: the storage it wrote, what it
\* returned and the username it was about.
DispatchUsername(op, username, out) ==
    /\ AuthorityOf' = out.st.AuthorityOf
    /\ UsernameOf' = out.st.UsernameOf
    /\ UsernameInfoOf' = out.st.UsernameInfoOf
    /\ PendingUsernames' = out.st.PendingUsernames
    /\ UnbindingUsernames' = out.st.UnbindingUsernames
    /\ reserved' = out.st.reserved
    /\ dispatched' = [op |-> op, res |-> out.res, username |-> username]

AddUsernameAuthority(origin, authority, suffix, allocation) ==
    /\ DispatchUsername("add_username_authority", None,
                        add_username_authority(UnStorage, origin, authority, suffix, allocation))
    /\ UNCHANGED <<judgementVars, now>>
    /\ UNCHANGED nonIdentityVars
RemoveUsernameAuthority(origin, suffix, authority) ==
    /\ DispatchUsername("remove_username_authority", None,
                        remove_username_authority(UnStorage, origin, suffix, authority))
    /\ UNCHANGED <<judgementVars, now>>
    /\ UNCHANGED nonIdentityVars
SetUsernameFor(sender, who, username, signature, use_allocation, reserveOk) ==
    /\ DispatchUsername("set_username_for", Some(username),
                        set_username_for(UnStorage, sender, who, username, signature,
                                         use_allocation, reserveOk))
    /\ UNCHANGED <<judgementVars, now>>
    /\ UNCHANGED nonIdentityVars
AcceptUsername(who, username) ==
    /\ DispatchUsername("accept_username", Some(username),
                        accept_username(UnStorage, who, username))
    /\ UNCHANGED <<judgementVars, now>>
    /\ UNCHANGED nonIdentityVars
RemoveExpiredApproval(username) ==
    /\ DispatchUsername("remove_expired_approval", Some(username),
                        remove_expired_approval(UnStorage, username))
    /\ UNCHANGED <<judgementVars, now>>
    /\ UNCHANGED nonIdentityVars
SetPrimaryUsername(who, username) ==
    /\ DispatchUsername("set_primary_username", Some(username),
                        set_primary_username(UnStorage, who, username))
    /\ UNCHANGED <<judgementVars, now>>
    /\ UNCHANGED nonIdentityVars
UnbindUsername(who, username) ==
    /\ DispatchUsername("unbind_username", Some(username),
                        unbind_username(UnStorage, who, username))
    /\ UNCHANGED <<judgementVars, now>>
    /\ UNCHANGED nonIdentityVars
RemoveUsername(username) ==
    /\ DispatchUsername("remove_username", Some(username),
                        remove_username(UnStorage, username))
    /\ UNCHANGED <<judgementVars, now>>
    /\ UNCHANGED nonIdentityVars
KillUsername(origin, username) ==
    /\ DispatchUsername("kill_username", Some(username),
                        kill_username(UnStorage, origin, username))
    /\ UNCHANGED <<judgementVars, now>>
    /\ UNCHANGED nonIdentityVars
\* frame_system moves to the next block.
NextBlock ==
    /\ now < MaxNow
    /\ now' = now + 1
    /\ dispatched' = [op |-> "next_block", res |-> Ok, username |-> None]
    /\ UNCHANGED <<judgementVars, usernameVars, reserved>>
    /\ UNCHANGED nonIdentityVars

NextUsernames ==
    \/ \E origin \in CallOrigins, authority \in RegistrarAccounts, suffix \in Suffixes \cup {<<>>},
          allocation \in Allocations :
          AddUsernameAuthority(origin, authority, suffix, allocation)
    \/ \E origin \in CallOrigins, suffix \in Suffixes, authority \in Accounts :
          RemoveUsernameAuthority(origin, suffix, authority)
    \/ \E sender \in Accounts, who \in IdOwners, username \in Usernames,
          signature \in Signatures, use_allocation \in BOOLEAN, reserveOk \in BOOLEAN :
          SetUsernameFor(sender, who, username, signature, use_allocation, reserveOk)
    \/ \E who \in Accounts, username \in Usernames : AcceptUsername(who, username)
    \/ \E username \in Usernames : RemoveExpiredApproval(username)
    \/ NextBlock

SpecUsernames == InitIdentity /\ [][NextUsernames]_vars

\* The whole life of a username: granted, accepted or expired, made primary,
\* unbound, removed or killed. Currency::reserve can succeed only while the
\* free balance lasts: an authority has at most MaxReserved to reserve.
ValidUsernames == {username \in Usernames : validate_username(username).res = Ok}
GrantUsername(sender, who, username, signature, use_allocation) ==
    /\ ~use_allocation => reserved[sender] < MaxReserved
    /\ SetUsernameFor(sender, who, username, signature, use_allocation, TRUE)
NextRegistry ==
    \/ \E allocation \in Allocations \ {0}, authority \in RegistrarAccounts, suffix \in Suffixes :
          AddUsernameAuthority("root", authority, suffix, allocation)
    \/ \E authority \in RegistrarAccounts, suffix \in Suffixes :
          RemoveUsernameAuthority("root", suffix, authority)
    \/ \E sender \in RegistrarAccounts, who \in IdOwners, username \in ValidUsernames,
          signature \in {None, Some(TRUE)}, use_allocation \in BOOLEAN :
          GrantUsername(sender, who, username, signature, use_allocation)
    \/ \E who \in IdOwners, username \in ValidUsernames : AcceptUsername(who, username)
    \/ \E username \in ValidUsernames : RemoveExpiredApproval(username)
    \/ \E who \in IdOwners, username \in ValidUsernames : SetPrimaryUsername(who, username)
    \/ \E who \in RegistrarAccounts, username \in ValidUsernames : UnbindUsername(who, username)
    \/ \E username \in ValidUsernames : RemoveUsername(username)
    \/ \E username \in ValidUsernames : KillUsername("root", username)
    \/ NextBlock

SpecRegistry == InitIdentity /\ [][NextRegistry]_vars

\* ------------------------------------------------------------- claims
StorageVars == <<Ledger, Bonded, Payee, VirtualStakers, lock>>
MutatingOps == {"bond", "update", "set_payee", "set_controller_to_stash", "kill"}

\* C1: every mutating ledger operation is all-or-nothing: when it returns an
\* error, Ledger, Bonded, Payee, VirtualStakers and every lock are what they
\* were before the call.
C1_AllOrNothing ==
    [][(last' \in MutatingOps /\ result' # Ok) => UNCHANGED StorageVars]_vars

\* C2: from empty storage, every Ledger entry under key c with stash s has
\* Bonded[s] = c, and get has no BadState to report.
C2_LedgerHasBond ==
    /\ \A c \in DOMAIN Ledger :
          /\ Ledger[c].stash \in DOMAIN Bonded
          /\ Bonded[Ledger[c].stash] = c
    /\ \A a \in Accounts :
          /\ get(Storage, Stash(a)).res # "BadState"
          /\ get(Storage, Controller(a)).res # "BadState"
C2_Witness ==
    /\ last = "kill" /\ result = Ok
    /\ Ledger # <<>>

\* C3: get never returns a wrong ledger: an Ok ledger has the resolved stash
\* and Bonded[ledger.stash] is the controller key it was read from; a stash
\* bonded to a controller whose ledger has another stash gets BadState.
C3_GetNeverWrong ==
    \A a \in Accounts :
        LET byStash == get(Storage, Stash(a))
            byCtrl == get(Storage, Controller(a))
        IN  /\ byStash.res = Ok =>
                  /\ byStash.ledger.stash = a
                  /\ Bonded[a] \in DOMAIN Ledger
                  /\ Encode(byStash.ledger) = Ledger[Bonded[a]]
                  /\ Bonded[byStash.ledger.stash] = Bonded[a]
            /\ byCtrl.res = Ok =>
                  /\ byCtrl.ledger.stash = Ledger[a].stash
                  /\ Encode(byCtrl.ledger) = Ledger[a]
                  /\ byCtrl.ledger.stash \in DOMAIN Bonded
                  /\ Bonded[byCtrl.ledger.stash] = a
            /\ (/\ a \in DOMAIN Bonded
                /\ Bonded[a] \in DOMAIN Ledger
                /\ Ledger[Bonded[a]].stash # a) => byStash.res = "BadState"
C3_Witness ==
    /\ last = "get" /\ result = "BadState"
    /\ \E a \in DOMAIN Bonded :
          /\ Bonded[a] \in DOMAIN Ledger
          /\ Ledger[Bonded[a]].stash # a

\* C4: after new(s, v).bond(payee) succeeds, get(Stash(s)) returns a ledger
\* with stash s, total = active = v, no unlocking chunk, and Bonded[s] = s.
C4_BondThenGet ==
    (/\ last = "bond" /\ result = Ok
     /\ Unwrap(handle) = new(Unwrap(handle).stash, Unwrap(handle).total)) =>
        LET s == Unwrap(handle).stash
            v == Unwrap(handle).total
            got == get(Storage, Stash(s))
        IN  /\ got.res = Ok
            /\ got.ledger.stash = s
            /\ got.ledger.total = v
            /\ got.ledger.active = v
            /\ got.ledger.unlocking = <<>>
            /\ Bonded[s] = s
C4_Witness ==
    /\ last = "bond" /\ result = Ok
    /\ Unwrap(handle) = new(Unwrap(handle).stash, Unwrap(handle).total)
    /\ Unwrap(handle).total > 0

\* C5: after kill(stash) succeeds on a stash bonded to c, Ledger[c],
\* Bonded[stash] and Payee[stash] are absent, get(Stash(stash)) is NotStash
\* and bond of the stash no longer fails with AlreadyBonded.
C5_KillRemoves ==
    [][\A s \in Accounts, ok \in BOOLEAN :
          (last' = "kill" /\ result' = Ok /\ Kill(s, ok)) =>
              /\ Bonded[s] \notin DOMAIN Ledger'
              /\ s \notin DOMAIN Bonded'
              /\ s \notin DOMAIN Payee'
              /\ get(Storage', Stash(s)).res = "NotStash"
              /\ \A v \in Balances, p \in RewardDestinations :
                    bond(Storage', new(s, v), p).res # "AlreadyBonded"]_vars
C5_Witness ==
    /\ last = "kill" /\ result = Ok
    /\ IsSome(handle)
    /\ Unwrap(handle).stash \notin DOMAIN Bonded

\* C6: for every stash that is not a virtual staker: bonded with a persisted
\* ledger, its lock equals the ledger's total; not bonded (never bonded, or
\* killed), it holds no lock.  Only update sets a lock, to ledger.total.
C6_LockState ==
    \A s \in Accounts \ VirtualStakers :
        /\ (s \in DOMAIN Bonded /\ Bonded[s] \in DOMAIN Ledger) =>
              lock[s] = Ledger[Bonded[s]].total
        /\ s \notin DOMAIN Bonded => lock[s] = 0
\* C6: the lock invariant above holds in every reachable state, and a step
\* that sets a lock is an update (bond ends in one) setting it to the total.
C6_LockMatchesLedger ==
    /\ []C6_LockState
    /\ [][\A s \in Accounts :
            (lock'[s] # lock[s] /\ lock'[s] # 0) =>
                /\ last' \in {"update", "bond"}
                /\ Unwrap(handle).stash = s
                /\ lock'[s] = Unwrap(handle).total]_vars

\* C7: for a stash flagged in VirtualStakers, update and kill leave every
\* lock as it is: update persists the ledger, kill removes the Ledger,
\* Bonded, Payee and VirtualStakers entries and nothing else.
C7_VirtualNoLock ==
    [][\A s \in VirtualStakers :
          /\ (last' = "update" /\ Update /\ Unwrap(handle).stash = s) =>
                /\ lock' = lock
                /\ s \in DOMAIN Bonded =>
                      /\ result' = Ok
                      /\ Ledger' = StorageInsert(Ledger, Unwrap(Unwrap(handle).controller),
                                                 Encode(Unwrap(handle)))
          /\ \A ok \in BOOLEAN :
                (last' = "kill" /\ Kill(s, ok)) =>
                    /\ lock' = lock
                    /\ result' = Ok =>
                          /\ Ledger' = StorageRemove(Ledger, Bonded[s])
                          /\ Bonded' = StorageRemove(Bonded, s)
                          /\ Payee' = StorageRemove(Payee, s)
                          /\ VirtualStakers' = VirtualStakers \ {s}]_vars
C7_Witness ==
    /\ last = "update" /\ result = Ok
    /\ Unwrap(handle).stash \in VirtualStakers
    /\ Unwrap(handle).total > FreeBalance(Unwrap(handle).stash)
    /\ lock[Unwrap(handle).stash] = 0

\* C8 (as stated): bond on a bonded stash returns AlreadyBonded and changes
\* nothing; on an unbonded stash it stores the payee and persists the ledger.
C8_BondAsStated ==
    [][\A p \in RewardDestinations :
          (last' = "bond" /\ Bond(p)) =>
              LET self == Unwrap(handle)
              IN  IF self.stash \in DOMAIN Bonded
                  THEN result' = "AlreadyBonded" /\ UNCHANGED StorageVars
                  ELSE /\ self.stash \in DOMAIN Payee'
                       /\ Payee'[self.stash] = p
                       /\ Unwrap(self.controller) \in DOMAIN Ledger'
                       /\ Ledger'[Unwrap(self.controller)] = Encode(self)]_vars
\* C8 (amended): bond on a bonded stash returns AlreadyBonded and changes
\* nothing; a bond of an unbonded stash that returns Ok has stored the payee
\* in Payee[stash] and persisted the ledger.
C8_BondAmended ==
    [][\A p \in RewardDestinations :
          (last' = "bond" /\ Bond(p)) =>
              LET self == Unwrap(handle)
              IN  IF self.stash \in DOMAIN Bonded
                  THEN result' = "AlreadyBonded" /\ UNCHANGED StorageVars
                  ELSE result' = Ok =>
                          /\ self.stash \in DOMAIN Payee'
                          /\ Payee'[self.stash] = p
                          /\ Unwrap(self.controller) \in DOMAIN Ledger'
                          /\ Ledger'[Unwrap(self.controller)] = Encode(self)]_vars
C8_Witness ==
    /\ last = "bond" /\ result = "AlreadyBonded"
    /\ Unwrap(handle).stash \in DOMAIN Ledger
    /\ Ledger[Unwrap(handle).stash] # Encode(Unwrap(handle))

C10_NoMergeAsStated ==
    [][(/\ last' = "set_controller_to_stash"
        /\ SetControllerToStash
        /\ Unwrap(handle).stash \in DOMAIN Ledger
        /\ Ledger[Unwrap(handle).stash].stash # Unwrap(handle).stash) =>
            /\ result' = "BadState"
            /\ Ledger' = Ledger
            /\ Bonded' = Bonded]_vars
\* C10 (amended): in that case the call returns BadState, or AlreadyPaired
\* when the ledger's own controller is its stash, and Ledger and Bonded are
\* unchanged either way.
C10_NoMergeAmended ==
    [][(/\ last' = "set_controller_to_stash"
        /\ SetControllerToStash
        /\ Unwrap(handle).stash \in DOMAIN Ledger
        /\ Ledger[Unwrap(handle).stash].stash # Unwrap(handle).stash) =>
            /\ result' = IF Unwrap(handle).controller = Some(Unwrap(handle).stash)
                         THEN "AlreadyPaired" ELSE "BadState"
            /\ Ledger' = Ledger
            /\ Bonded' = Bonded]_vars
C10_Witness ==
    /\ last = "set_controller_to_stash" /\ result = "BadState"
    /\ Unwrap(handle).stash \in DOMAIN Ledger
    /\ Ledger[Unwrap(handle).stash].stash # Unwrap(handle).stash

\* C12: every ledger a successful get returns carries controller = Some(c)
\* with c = Bonded[ledger.stash] in the storage the get read: the cached
\* controller is never None and never differs from the Bonded map.
C12_ControllerCached ==
    /\ \A a \in Accounts : \A key \in {Stash(a), Controller(a)} :
          LET out == get(Storage, key)
          IN  out.res = Ok =>
                  /\ IsSome(out.ledger.controller)
                  /\ out.ledger.stash \in DOMAIN Bonded
                  /\ Unwrap(out.ledger.controller) = Bonded[out.ledger.stash]
                  /\ controller(Storage, out.ledger) = Some(Bonded[out.ledger.stash])
    /\ (last = "get" /\ result = Ok) =>
          /\ IsSome(Unwrap(handle).controller)
          /\ Unwrap(handle).controller = Some(Bonded[Unwrap(handle).stash])
C12_Witness ==
    /\ last = "get" /\ result = Ok
    /\ Unwrap(handle).controller # Some(Unwrap(handle).stash)
    /\ Unwrap(handle).controller = Some(Bonded[Unwrap(handle).stash])

\* C13 (one storage state): get(Stash(s)) is Ok with controller c exactly
\* when get(Controller(c)) is Ok with stash s, and then the two ledgers agree
\* in stash, total, active, unlocking and controller.
C13_SameLedger ==
    \A s \in Accounts, c \in Accounts :
        LET byStash == get(Storage, Stash(s))
            byCtrl == get(Storage, Controller(c))
        IN  /\ (byStash.res = Ok /\ byStash.ledger.controller = Some(c))
                    <=> (byCtrl.res = Ok /\ byCtrl.ledger.stash = s)
            /\ (byStash.res = Ok /\ byStash.ledger.controller = Some(c)) =>
                  /\ byStash.ledger.stash = byCtrl.ledger.stash
                  /\ byStash.ledger.total = byCtrl.ledger.total
                  /\ byStash.ledger.active = byCtrl.ledger.active
                  /\ byStash.ledger.unlocking = byCtrl.ledger.unlocking
                  /\ byStash.ledger.controller = byCtrl.ledger.controller
\* C13: stash and controller keys resolve to the same ledger in every storage
\* state, and a get step leaves Ledger, Bonded, Payee, VirtualStakers and the
\* locks as they were.
C13_SameCanonicalLedger ==
    /\ []C13_SameLedger
    /\ [][\A a \in Accounts :
            (last' = "get" /\ (Get(Stash(a)) \/ Get(Controller(a)))) =>
                UNCHANGED StorageVars]_vars
C13_Witness ==
    /\ last = "get" /\ result = Ok
    /\ Unwrap(Unwrap(handle).controller) # Unwrap(handle).stash
    /\ get(Storage, Stash(Unwrap(handle).stash)).res = Ok
    /\ get(Storage, Controller(Unwrap(Unwrap(handle).controller))).res = Ok
    /\ \E a \in Accounts : get(Storage, Controller(a)).res = "BadState"

\* C11 (serialized part): while every writer that has started ran its
\* get -> mutate -> update as one serialized step, the persisted ledger is
\* the initial one with the mutation of every writer whose update returned
\* Ok applied, in commit order.
C11_AllSerialized == \A w \in Writers : writer[w].pc # "idle" => writer[w].atomic
C11_Persisted == Ledger[Bonded[CHOOSE s \in DOMAIN Bonded : TRUE]]
\* C11: serialized writers lose no mutation; in every interleaving the
\* persisted ledger is the in-memory copy of the writer that updated last
\* (a later update overwrites the earlier one).
C11_SerializedKeepsAll ==
    /\ C11_AllSerialized => C11_Persisted = Unwrap(expected)
    /\ committed # <<>> =>
          C11_Persisted = Encode(Unwrap(writer[committed[Len(committed)]].copy))
\* Both writers read the same stored ledger with their steps interleaved,
\* both updates returned Ok, and the persisted ledger holds the later
\* writer's mutation only.
C11_Witness ==
    /\ Len(committed) = 2
    /\ \A w \in Writers : ~writer[w].atomic
    /\ writer["w1"].base = writer["w2"].base
    /\ C11_Persisted # Unwrap(expected)
    /\ C11_Persisted = mutate(Unwrap(writer[committed[2]].base), writer[committed[2]].mut)

\* The compact form of a tuple written out: per element, tag 1 and its hash.
RECURSIVE C14_HashesOf(_)
C14_HashesOf(tuple) ==
    IF tuple = <<>> THEN <<>>
    ELSE <<Byte(1), hash(Head(tuple))>> \o C14_HashesOf(Tail(tuple))
\* C14: the hash of a Data node is H of the leaf's compact encoding (for a
\* String leaf its SCALE encoding, for a Compact leaf the tuple of element
\* hashes), never H of a full encoding that differs from it; the hash of a
\* Hash node is the hash it holds.
C14_NodeHashRule ==
    (codec.op = "hash" /\ IsNode(item)) =>
        IF item.kind = "Hash" THEN codec.digest = item.hash
        ELSE /\ codec.digest = H(using_encoded(item.leaf, TRUE))
             /\ codec.digest =
                   H(IF item.leaf.type = "String"
                     THEN <<Byte(4 * Len(item.leaf.data))>> \o item.leaf.data
                     ELSE C14_HashesOf(item.leaf.tuple))
             /\ using_encoded(item.leaf, TRUE) # using_encoded(item.leaf, FALSE) =>
                   codec.digest # H(using_encoded(item.leaf, FALSE))
C14_Witness ==
    /\ codec.op = "hash"
    /\ IsNode(item)
    /\ item.kind = "Data"
    /\ item.leaf.type = "Compact"
    /\ \E i \in DOMAIN item.leaf.tuple : item.leaf.tuple[i].kind = "Data"
    /\ codec.digest # H(using_encoded(item.leaf, FALSE))

\* C15: replacing any subset of a Compact tuple's elements by the Hash nodes
\* of their hashes leaves the compact encoding and the compact-form hash as
\* they were.
C15_HidingKeepsHash ==
    /\ ~IsNode(item) =>
          \A chosen \in SUBSET DOMAIN item.tuple :
              /\ using_encoded(hide(item, chosen), TRUE) = using_encoded(item, TRUE)
              /\ Compact_hash(hide(item, chosen)) = Compact_hash(item)
    /\ codec.op = "hide" =>
          /\ using_encoded(item, TRUE) = using_encoded(codec.before, TRUE)
          /\ Compact_hash(item) = Compact_hash(codec.before)
C15_Witness ==
    /\ codec.op = "hide"
    /\ item # codec.before
    /\ \E i \in DOMAIN item.tuple : item.tuple[i].kind = "Data"
    /\ using_encoded(item, FALSE) # using_encoded(codec.before, FALSE)

C16_AllHashes(leaf) == \A i \in DOMAIN leaf.tuple : leaf.tuple[i].kind = "Hash"
\* C16: a Compact leaf's compact encoding equals its full encoding exactly
\* when every element is a Hash node, and so do the hashes of the two.
C16_CompactIsFullIffAllHashes ==
    /\ ~IsNode(item) =>
          /\ (using_encoded(item, TRUE) = using_encoded(item, FALSE))
                <=> C16_AllHashes(item)
          /\ (H(using_encoded(item, TRUE)) = H(using_encoded(item, FALSE)))
                <=> C16_AllHashes(item)
    /\ (codec.op = "encode" /\ ~IsNode(item) /\ codec.compact) =>
          (codec.bytes = using_encoded(item, FALSE) <=> C16_AllHashes(item))
C16_Witness ==
    /\ codec.op = "encode" /\ ~IsNode(item) /\ codec.compact
    /\ \E i \in DOMAIN item.tuple : item.tuple[i].kind = "Data"
    /\ \E i \in DOMAIN item.tuple : item.tuple[i].kind = "Hash"
    /\ codec.bytes # using_encoded(item, FALSE)

\* C17: decoding the full encoding of a DataOrHash node or of a Compact
\* tuple returns Ok of a value equal to the original.
C17_FullRoundTrip ==
    (codec.op = "decode" /\ ~codec.compact) =>
        codec.decoded = [res |-> Ok, value |-> item]
C17_Witness ==
    /\ codec.op = "decode" /\ ~codec.compact
    /\ ~IsNode(item)
    /\ \E i \in DOMAIN item.tuple : item.tuple[i] = Data(StringLeaf(<<H(<<>>)>>))
    /\ \E i \in DOMAIN item.tuple : item.tuple[i].kind = "Hash"
    /\ codec.decoded.res = Ok

\* C18: decoding the compact encoding of a Compact tuple returns Ok of the
\* tuple with every element e replaced by Hash(e.hash()); that is the
\* original exactly when every element was a Hash node already.
C18_CompactDecodesHidden ==
    (codec.op = "decode" /\ codec.compact) =>
        /\ codec.decoded = [res |-> Ok, value |-> hide(item, DOMAIN item.tuple)]
        /\ C16_AllHashes(codec.decoded.value)
        /\ \A i \in DOMAIN item.tuple :
              codec.decoded.value.tuple[i] = Hash(hash(item.tuple[i]))
        /\ (codec.decoded.value = item) <=> C16_AllHashes(item)
C18_Witness ==
    /\ codec.op = "decode" /\ codec.compact
    /\ codec.decoded.res = Ok
    /\ \E i \in DOMAIN item.tuple : item.tuple[i].kind = "Data"
    /\ codec.decoded.value # item

C20_AppendMonotonic ==
    /\ mmr_leaf_count(mmr) = Len(returned)
    /\ \A i \in DOMAIN returned, j \in DOMAIN returned :
          i < j => returned[i] < returned[j]
    /\ (reply.op = "append" /\ reply.res = Ok) =>
          /\ reply.index = returned[Len(returned)]
          /\ NodeAt(mmr, reply.index) = hash(Data(mmr.leaves[Len(mmr.leaves)]))
C20_Witness ==
    /\ reply.op = "append" /\ reply.res = Ok
    /\ mmr_leaf_count(mmr) = 3
    /\ returned = <<0, 1, 3>>

\* C26: the MMR is append-only: no step but a successful append changes its
\* state; the leaf count and the node count never decrease; a node written
\* at an index stays there as it is through every later append; and
\* mmr_root, generate_proof, verify_proof and verify_proof_stateless leave
\* the state as it was.
C26_Reads == {"mmr_root", "generate_proof", "verify_proof"}
C26_AppendOnly ==
    [][/\ mmr' # mmr => (reply'.op = "append" /\ reply'.res = Ok)
       /\ mmr_leaf_count(mmr') >= mmr_leaf_count(mmr)
       /\ Len(mmr'.nodes) >= Len(mmr.nodes)
       /\ \A i \in DOMAIN mmr.nodes : mmr'.nodes[i] = mmr.nodes[i]
       /\ reply'.op \in C26_Reads => (mmr' = mmr /\ returned' = returned)]_vars
C26_Witness ==
    /\ reply.op = "verify_proof"
    /\ mmr.leaf_count = 4
    /\ Len(mmr.nodes) = 7

\* The forest the node array holds, read off the array itself: a leaf hash
\* opens a tree of height 0, a parent hash closes the two trees before it.
C25_IsParent(node) ==
    /\ node.digest # <<>>
    /\ "digest" \in DOMAIN node.digest[1]
RECURSIVE C25_Scan(_, _, _)
C25_Scan(nodes, k, stack) ==
    IF k > Len(nodes) THEN stack
    ELSE LET n == Len(stack)
         IN  IF ~C25_IsParent(nodes[k])
             THEN C25_Scan(nodes, k + 1,
                           Append(stack, [height |-> 0, pos |-> k - 1, perfect |-> TRUE]))
             ELSE IF n >= 2 /\ nodes[k] = H(<<nodes[stack[n - 1].pos + 1],
                                              nodes[stack[n].pos + 1]>>)
             THEN C25_Scan(nodes, k + 1,
                           Append(SubSeq(stack, 1, n - 2),
                                  [height |-> stack[n].height + 1, pos |-> k - 1,
                                   perfect |-> /\ stack[n].perfect
                                               /\ stack[n - 1].perfect
                                               /\ stack[n].height = stack[n - 1].height]))
             ELSE C25_Scan(nodes, k + 1,
                           Append(stack, [height |-> 0, pos |-> k - 1, perfect |-> FALSE]))
C25_SetBits(N) == {h \in 0..MaxLeaves : (N \div 2^h) % 2 = 1}

\* C25: after any sequence of N appends the peaks of the forest in the node
\* array are perfect binary trees, one of height h for every 1 bit h of N
\* and no other, in strictly decreasing height (no two of one height), and
\* they are the peaks the root and the proofs are computed from.
C25_PeaksAreBitsOfCount ==
    LET forest == C25_Scan(mmr.nodes, 1, <<>>)
        N == mmr_leaf_count(mmr)
    IN  /\ \A i \in DOMAIN forest : forest[i].perfect
        /\ {forest[i].height : i \in DOMAIN forest} = C25_SetBits(N)
        /\ \A i \in DOMAIN forest, j \in DOMAIN forest :
              i < j => forest[i].height > forest[j].height
        /\ Len(forest) = Len(peaks(N))
        /\ \A i \in DOMAIN forest :
              /\ forest[i].height = peaks(N)[i].height
              /\ forest[i].pos = peaks(N)[i].pos
C25_Witness ==
    /\ reply.op = "append" /\ reply.res = Ok
    /\ mmr_leaf_count(mmr) = 4
    /\ Len(mmr.nodes) = 7
    /\ C25_Scan(mmr.nodes, 1, <<>>) = <<[height |-> 2, pos |-> 6, perfect |-> TRUE]>>

\* A second MMR: it starts empty and receives the leaves given, in order,
\* and nothing else; what each append returned is kept with it.
RECURSIVE C24_Twin(_)
C24_Twin(leaves) ==
    IF leaves = <<>> THEN [m |-> EmptyMmr, indices |-> <<>>, roots |-> <<>>]
    ELSE LET before == C24_Twin(SubSeq(leaves, 1, Len(leaves) - 1))
             pushed == append(before.m, leaves[Len(leaves)], TRUE)
         IN  [m |-> pushed.m,
              indices |-> Append(before.indices, pushed.index),
              roots |-> Append(before.roots, mmr_root(pushed.m))]
\* The root as a function of the leaf hashes alone: the Merkle root of each
\* run of 2^h hashes the binary representation of their number gives, bagged.
RECURSIVE C24_Merkle(_)
C24_Merkle(hashes) ==
    IF Len(hashes) = 1 THEN hashes[1]
    ELSE LET half == Len(hashes) \div 2
         IN  H(<<C24_Merkle(SubSeq(hashes, 1, half)),
                 C24_Merkle(SubSeq(hashes, half + 1, Len(hashes)))>>)
RECURSIVE C24_PeaksOf(_)
C24_PeaksOf(hashes) ==
    IF hashes = <<>> THEN <<>>
    ELSE LET run == 2^TopHeight(Len(hashes))
         IN  <<C24_Merkle(SubSeq(hashes, 1, run))>>
                 \o C24_PeaksOf(SubSeq(hashes, run + 1, Len(hashes)))
C24_RootOf(hashes) == bagging(C24_PeaksOf(hashes))

\* C24: an MMR and a second one that started empty and received the same
\* leaves in the same order (and no refused write, no read in between) have
\* the same leaf count, the same node index for every leaf and, after every
\* append, the same root; the root is a function of the sequence of leaf
\* hashes.
C24_RootDeterminism ==
    LET twin == C24_Twin(mmr.leaves)
    IN  /\ mmr_leaf_count(mmr) = mmr_leaf_count(twin.m)
        /\ returned = twin.indices
        /\ mmr_root(mmr) = mmr_root(twin.m)
        /\ mmr_root(mmr) = C24_RootOf([k \in DOMAIN mmr.leaves |->
                                          hash(Data(mmr.leaves[k]))])
        /\ \A k \in DOMAIN twin.roots :
              twin.roots[k] = C24_RootOf([j \in 1..k |-> hash(Data(mmr.leaves[j]))])
        /\ reply.op = "mmr_root" => reply.root = mmr_root(twin.m)
\* mmr_root at three leaves: the peak of c bagged with the peak over a and b.
C24_Witness ==
    /\ reply.op = "mmr_root"
    /\ mmr_leaf_count(mmr) = 3
    /\ reply.root = mmr_root(C24_Twin(mmr.leaves).m)
    /\ reply.root = H(<<NodeAt(mmr, 3), H(<<NodeAt(mmr, 0), NodeAt(mmr, 1)>>)>>)

\* The root the MMR had at L leaves, and the hashes a forger has at hand:
\* every node of the MMR, the root at every leaf count, the empty-tree root.
C22_RootAt(m, L) == mmr_root([m EXCEPT !.leaf_count = L])
C22_Hashes(m) ==
    {m.nodes[i] : i \in DOMAIN m.nodes}
        \cup {C22_RootAt(m, L) : L \in 0..m.leaf_count}

C23_a == StringLeaf(<<Byte(97)>>)
C23_b == StringLeaf(<<Byte(98)>>)
C23_c == StringLeaf(<<Byte(99)>>)
C23_Case ==
    /\ reply.op = "verify_proof"
    /\ mmr.leaves = <<C23_a, C23_b, C23_c>>
    /\ reply.asked = {1}
\* The proof of the claim: leaf_count 3, one item, the hash of leaf a.
C23_OneItemProof == LeafProof(<<1>>, 3, <<hash(Data(C23_a))>>)

C28_AddNumberAsStated ==
    [][call'.op = "add_number_into_total" =>
          IF call'.i \in DOMAIN Numbers
          THEN /\ call'.res = Ok
               /\ Numbers' = StorageRemove(Numbers, call'.i)
               /\ Total' = <<Wrapped(Plus(Total[1], call'.i)),
                             Wrapped(Plus(Total[2], Numbers[call'.i]))>>
          ELSE /\ call'.res = "NotFound"
               /\ Numbers' = Numbers
               /\ Total' = Total]_vars

\* C27: after numbers were stored, once offchain_worker has been invoked and
\* the blocks advance, every stored entry is eventually processed: Numbers
\* holds none of the keys and Total is (the sum of the stored keys, the sum
\* of the stored values).
C27_EventuallyProcessed ==
    (call.op = "offchain_worker" /\ DOMAIN Numbers # {})
        ~> (DOMAIN Numbers = {} /\ Total = processed)


\* The judgement registrar reg_index has on who's identity, if any.
C29_JudgementOf(ids, who, reg_index) ==
    IF who \in DOMAIN ids /\ \E i \in DOMAIN ids[who].judgements :
                                 ids[who].judgements[i][1] = reg_index
    THEN Some(ids[who].judgements[
             CHOOSE i \in DOMAIN ids[who].judgements : ids[who].judgements[i][1] = reg_index][2])
    ELSE None
\* The sticky judgements recorded before the step, as (owner, registrar index).
C29_Sticky ==
    {p \in Accounts \X RegistrarIndices :
        /\ IsSome(C29_JudgementOf(IdentityOf, p[1], p[2]))
        /\ is_sticky(Unwrap(C29_JudgementOf(IdentityOf, p[1], p[2])))}
C29_Kept(p) ==
    C29_JudgementOf(IdentityOf', p[1], p[2]) = C29_JudgementOf(IdentityOf, p[1], p[2])
C29_ByRemovalOrRegistrar(p) ==
    \/ /\ dispatched'.op \in {"clear_identity", "kill_identity"}
       /\ dispatched'.res = Ok
       /\ ~(p[1] \in DOMAIN IdentityOf')
    \/ /\ dispatched'.op = "provide_judgement"
       /\ dispatched'.res = Ok
       /\ IsSome(C29_JudgementOf(IdentityOf', p[1], p[2]))

C30_Did(op) ==
    /\ dispatched'.op = op
    /\ dispatched'.res = Ok
\* The deadline stored with the pending entry of the last call's username.
C30_Expiration == PendingUsernames[Unwrap(dispatched'.username)][2]
C30_WasPending == Unwrap(dispatched'.username) \in DOMAIN PendingUsernames

\* C30: a queued username grant carries the expiration queue block +
\* PendingUsernameExpiration; accept_username succeeds only while the current
\* block number is not past that expiration, and remove_expired_approval
\* succeeds only once the current block number is strictly past it.
C30_AcceptWithinExpiration ==
    [][/\ (C30_Did("set_username_for") /\ Unwrap(dispatched'.username) \in DOMAIN PendingUsernames')
            => PendingUsernames'[Unwrap(dispatched'.username)][2] = now + PendingUsernameExpiration
       /\ C30_Did("accept_username") => (C30_WasPending /\ now <= C30_Expiration)
       /\ C30_Did("remove_expired_approval") => (C30_WasPending /\ now > C30_Expiration)
      ]_vars


\* What the last call returned, and the username it was about.
C31_Called(op) == dispatched'.op = op /\ IsSome(dispatched'.username)
C31_Name == Unwrap(dispatched'.username)
C31_UsernameStorage == <<usernameVars, reserved>>

\* C31: remove_username deletes a registered username only after the
\* authority's unbind_username put it in UnbindingUsernames with expiry
\* unbind block + UsernameGracePeriod, and only at a block number >= that
\* expiry; an earlier call fails with NotUnbinding or TooEarly and leaves the
\* username, its owner's primary mapping and the unbinding entry as they
\* were; at the stored expiry and after, the call succeeds.
C31_RemoveAfterGrace ==
    [][/\ \A u \in DOMAIN UnbindingUsernames' :
             IF u \in DOMAIN UnbindingUsernames
             THEN UnbindingUsernames'[u] = UnbindingUsernames[u]
             ELSE /\ dispatched' = [op |-> "unbind_username", res |-> Ok, username |-> Some(u)]
                  /\ UnbindingUsernames'[u] = now + UsernameGracePeriod
                  /\ u \in DOMAIN UsernameInfoOf
                  /\ Unwrap(suffix_of_username(u)) \in DOMAIN AuthorityOf
       /\ (C31_Called("remove_username") /\ dispatched'.res = Ok) =>
             /\ C31_Name \in DOMAIN UnbindingUsernames
             /\ now >= UnbindingUsernames[C31_Name]
             /\ C31_Name \in DOMAIN UsernameInfoOf
             /\ ~(C31_Name \in DOMAIN UsernameInfoOf')
             /\ ~(C31_Name \in DOMAIN UnbindingUsernames')
       /\ (C31_Called("remove_username") /\ dispatched'.res # Ok) =>
             /\ dispatched'.res \in {"NotUnbinding", "TooEarly"}
             /\ UNCHANGED C31_UsernameStorage
       /\ \A u \in DOMAIN UnbindingUsernames :
             /\ u \in DOMAIN UsernameInfoOf
             /\ now < UnbindingUsernames[u] => remove_username(UnStorage, u).res = "TooEarly"
             /\ now >= UnbindingUsernames[u] => remove_username(UnStorage, u).res = Ok
       /\ \A u \in DOMAIN UsernameInfoOf :
             ~(u \in DOMAIN UnbindingUsernames) =>
                 remove_username(UnStorage, u).res = "NotUnbinding"
      ]_vars
\* A username removed once its grace period was over.
C31_Witness ==
    /\ dispatched.op = "remove_username"
    /\ dispatched.res = Ok
    /\ now > UsernameGracePeriod
    /\ ~(Unwrap(dispatched.username) \in DOMAIN UsernameInfoOf)


C33_MissesByKind ==
    \A a \in Accounts :
        LET byStash == get(Storage, Stash(a)).res
            byCtrl == get(Storage, Controller(a)).res
        IN  /\ byStash = "NotStash" <=> ~(a \in DOMAIN Bonded)
            /\ byCtrl = "NotController" <=> ~(a \in DOMAIN Ledger)
            /\ (a \in DOMAIN Bonded /\ ~(Bonded[a] \in DOMAIN Ledger)) =>
                   byStash = "NotController"
            /\ byStash = "BadState" <=>
                   /\ a \in DOMAIN Bonded
                   /\ Bonded[a] \in DOMAIN Ledger
                   /\ Ledger[Bonded[a]].stash # a
            /\ byCtrl = "BadState" <=>
                   /\ a \in DOMAIN Ledger
                   /\ StorageGet(Bonded, Ledger[a].stash) # Some(a)
            /\ byStash \in {Ok, "NotStash", "NotController", "BadState"}
            /\ byCtrl \in {Ok, "NotController", "BadState"}
\* A get by stash that found the Bonded entry and no ledger under it.
C33_Witness ==
    /\ last = "get"
    /\ result = "NotController"
    /\ \E a \in DOMAIN Bonded : ~(Bonded[a] \in DOMAIN Ledger)
    /\ \E a \in Accounts : get(Storage, Stash(a)).res = "BadState"


\* C34: a successful set_controller_to_stash on a ledger with stash s and
\* controller c # s leaves no Ledger entry under c, stores under s the ledger
\* with the total, active and unlocking it had, sets Bonded[s] = s and leaves
\* locks and Payee alone; a get by stash then returns a ledger on which the
\* call fails with AlreadyPaired, and every call on a ledger whose controller
\* is its stash fails with AlreadyPaired and changes nothing.
C34_MigratesOnce ==
    [][(/\ last' = "set_controller_to_stash"
        /\ SetControllerToStash) =>
          LET self == Unwrap(handle)
              s == self.stash
          IN  /\ result' = Ok =>
                    /\ IsSome(self.controller) /\ Unwrap(self.controller) # s
                    /\ ~(Unwrap(self.controller) \in DOMAIN Ledger')
                    /\ s \in DOMAIN Ledger'
                    /\ Decode(Ledger'[s]).stash = s
                    /\ Decode(Ledger'[s]).total = self.total
                    /\ Decode(Ledger'[s]).active = self.active
                    /\ Decode(Ledger'[s]).unlocking = self.unlocking
                    /\ \A k \in DOMAIN Ledger' \ {s} :
                          k \in DOMAIN Ledger /\ Ledger'[k] = Ledger[k]
                    /\ Bonded' = StorageInsert(Bonded, s, s)
                    /\ UNCHANGED <<Payee, lock, VirtualStakers>>
                    /\ get(Storage', Stash(s)).res = Ok
                    /\ get(Storage', Stash(s)).ledger.controller = Some(s)
                    /\ set_controller_to_stash(Storage', get(Storage', Stash(s)).ledger)
                          = [res |-> "AlreadyPaired", st |-> Storage']
              /\ self.controller = Some(s) =>
                    /\ result' = "AlreadyPaired"
                    /\ UNCHANGED StorageVars]_vars
\* A ledger fetched under a controller that is not its stash was migrated.
C34_Witness ==
    /\ last = "set_controller_to_stash" /\ result = Ok
    /\ Unwrap(handle).controller # Some(Unwrap(handle).stash)
    /\ Unwrap(handle).stash \in DOMAIN Ledger
    /\ Bonded[Unwrap(handle).stash] = Unwrap(handle).stash
    /\ ~(Unwrap(Unwrap(handle).controller) \in DOMAIN Ledger)


\* The number of 1 bits of n.
RECURSIVE C35_PopCount(_)
C35_PopCount(n) == IF n = 0 THEN 0 ELSE (n % 2) + C35_PopCount(n \div 2)
C35_IsLeafHash(node) == \E leaf \in LeafValues : node = hash(Data(leaf))
\* C35: node indices are handed out contiguously, one per node created:
\* after N appends the node array holds the indices 0 .. 2N - popcount(N) - 1;
\* the k-th append returned the index 2k - popcount(k) of its leaf (k counted
\* from 0), where the hash of that leaf is stored, never a parent; every
\* other node is a parent H(left ++ right) whose right child is the node just
\* before it and whose left child has a smaller index still.
C35_IndicesContiguous ==
    LET N == mmr_leaf_count(mmr)
        size == 2 * N - C35_PopCount(N)
        leafAt == {returned[k] : k \in DOMAIN returned}
    IN  /\ {i - 1 : i \in DOMAIN mmr.nodes} = 0 .. (size - 1)
        /\ Len(returned) = N
        /\ \A k \in DOMAIN returned :
              /\ returned[k] = 2 * (k - 1) - C35_PopCount(k - 1)
              /\ returned[k] < size
              /\ NodeAt(mmr, returned[k]) = hash(Data(mmr.leaves[k]))
              /\ C35_IsLeafHash(NodeAt(mmr, returned[k]))
        /\ \A p \in (0 .. (size - 1)) \ leafAt :
              /\ ~C35_IsLeafHash(NodeAt(mmr, p))
              /\ p >= 2
              /\ \E l \in 0 .. (p - 2) :
                    NodeAt(mmr, p) = H(<<NodeAt(mmr, l), NodeAt(mmr, p - 1)>>)
        /\ (reply.op = "append" /\ reply.res = Ok) =>
              /\ reply.index = 2 * (N - 1) - C35_PopCount(N - 1)
              /\ reply.index \in leafAt
\* The fourth append created the leaf 4 and the parents 5 and 6 and
\* returned 4.
C35_Witness ==
    /\ reply.op = "append" /\ reply.res = Ok /\ reply.index = 4
    /\ mmr_leaf_count(mmr) = 4
    /\ Len(mmr.nodes) = 7
    /\ returned = <<0, 1, 3, 4>>


C36_Listed(s, m) == \E i \in DOMAIN subs_of(IdStorage, m).subs : subs_of(IdStorage, m).subs[i] = s
\* C36: the two sub-identity maps agree in every state reached through
\* set_subs, add_sub, rename_sub, remove_sub, quit_sub, clear_identity and
\* kill_identity: SuperOf[s] names m as super exactly when s occurs in the
\* list of SubsOf[m], so no account is in the lists of two supers and no list
\* names an account whose SuperOf is absent or names another super.
C36_SubMapsConsistent ==
    /\ DOMAIN SuperOf \subseteq Accounts
    /\ DOMAIN SubsOf \subseteq Accounts
    /\ \A s \in Accounts, m \in Accounts :
          (s \in DOMAIN SuperOf /\ SuperOf[s][1] = m) <=> C36_Listed(s, m)
    /\ \A s \in Accounts, m1 \in Accounts, m2 \in Accounts :
          (C36_Listed(s, m1) /\ C36_Listed(s, m2)) => m1 = m2
\* Each account is the one sub of the other, and a set_subs that claimed a
\* sub of the other super was refused.
C36_Witness ==
    /\ dispatched = [op |-> "set_subs", res |-> "AlreadyClaimed"]
    /\ subs_of(IdStorage, "alice").subs = <<"bob">>
    /\ subs_of(IdStorage, "bob").subs = <<"alice">>
    /\ SuperOf["bob"][1] = "alice"
    /\ SuperOf["alice"][1] = "bob"

C37_SubOps == {"set_subs", "add_sub", "remove_sub", "quit_sub"}
\* C37 (as stated): in every reachable state the deposit recorded in
\* SubsOf[m] is SubAccountDeposit times the number of accounts in its list,
\* and each set_subs, add_sub, remove_sub and quit_sub changes the balance
\* reserved on m by exactly the change of that recorded deposit.
C37_DepositPerSubAsStated ==
    [][/\ \A m \in Accounts :
             subs_of(IdStorage', m).deposit
                 = SubAccountDeposit * Len(subs_of(IdStorage', m).subs)
       /\ dispatched'.op \in C37_SubOps =>
             \A m \in Accounts :
                 reserved'[m] - reserved[m]
                     = subs_of(IdStorage', m).deposit - subs_of(IdStorage, m).deposit
      ]_vars


\* The arithmetic sum of the values Numbers holds.
RECURSIVE C39_SumOf(_, _)
C39_SumOf(numbers, keys) ==
    IF keys = {} THEN U32(0)
    ELSE LET k == CHOOSE k \in keys : TRUE
         IN  Plus(numbers[k], C39_SumOf(numbers, keys \ {k}))
C39_Pending(numbers) == C39_SumOf(numbers, DOMAIN numbers)
\* C39 (as stated): the totals are exact sums: every run of
\* add_number_into_total leaves Total.1 plus the sum of the values still in
\* Numbers unchanged, Total.0 and Total.1 are the arithmetic sums of the keys
\* and values processed so far, and no u32 addition overflows or wraps.
C39_ExactSumsAsStated ==
    [][/\ Total' = processed'
       /\ call'.op \in {"add_number_into_total", "do_task"} =>
             /\ call'.res # "panic"
             /\ Plus(Total'[2], C39_Pending(Numbers'))
                    = Plus(Total[2], C39_Pending(Numbers))
             /\ call'.i \in DOMAIN Numbers =>
                    /\ ~Overflows(Plus(Total[1], call'.i))
                    /\ ~Overflows(Plus(Total[2], Numbers[call'.i]))
      ]_vars
====
